---- MODULE Spec2Model ----
(***************************************************************************)
(* Model of the multi-tenant authentication service of go-auth-service:    *)
(* MultiTenantAuthService (Login, VerifyToken, RefreshToken, Logout,       *)
(* membership management) over its repositories and the Redis session      *)
(* store, and PermissionService over its permission cache.                 *)
(*                                                                         *)
(* Collections are sets of rows, as in the document store.  A lookup       *)
(* returns the set of matching rows; FindOne picks one of them or Nil.     *)
(* Time is counted in days: the session lives 24h = 1 day, the refresh     *)
(* credential 7 days.  The permission scenario counts it in cache TTLs of   *)
(* 5 minutes.                                                              *)
(***************************************************************************)
EXTENDS Integers, FiniteSets, Sequences, TLC

VARIABLES
    users_auth,           \* collection users_auth: rows of domain.User
    user_tenants,         \* collection user_tenants: rows of domain.UserTenant
    tenant_login_configs, \* collection tenant_login_configs
    roles,                \* collection roles
    refresh_tokens,       \* collection refresh_tokens: rows of domain.RefreshToken
    redisCache,           \* TRUE iff the service was built with a Redis client
    sessions,             \* Redis keys "session:<token>": rows of domain.Session
    permCache,            \* PermissionService.cache: present or nil, keys "permissions:<u>:<t>"
    now,                  \* time.Now(), in days
    nextToken,            \* number of the next token pair to be generated
    tokenLimit,           \* token pairs the scenario may generate
    changes,              \* administrative changes made so far
    failStreak,           \* history: failed password checks in a row for one (user, tenant)
    vt,                   \* a VerifyToken call in progress (step by step)
    gp,                   \* GetUserPermissions / CheckPermission calls, step by step
    calls,                \* Register / AddUserToTenant calls, step by step
    gw,                   \* the gateway: its AuthClient and its local cache
    hist,                 \* history: token pairs issued, tokens logged out, permissions lost
    last                  \* history: the operation that returned last, with its result

vars == <<users_auth, user_tenants, tenant_login_configs, roles, refresh_tokens,
          redisCache, sessions, permCache, now, nextToken, tokenLimit, changes,
          failStreak, vt, gp, calls, gw, hist, last>>

----------------------------------------------------------------------------
(* Bounds of the model *)

MaxTokens == 2
MaxIssued == 1
MaxTime == 1
MaxChanges == 1
MaxCalls == 2

(* Program constants *)

SessionTTL == 1
RefreshTTL == 7
DefaultMaxLoginAttempts == 5
DefaultPasswordMinLength == 8
PermCacheTTL == 1
GatewayCacheTTL == 1
MinutesPerDay == 1440

----------------------------------------------------------------------------
(* Values *)

Nil == [nil |-> TRUE]

\* The gateway as cmd/gateway/main.go builds it: no AuthClient, an empty cache
NoGateway == [authClient |-> FALSE, cache |-> {}]

EmptyTenantID == ""
TenantIDs == {EmptyTenantID, "T1"}
UserIDs == {"u1", "u2"}
Passwords == {"pw", "wrong"}
Identifiers == {"a@b.c", "alice", "bob", "555", "nobody"}
RoleNames == {"admin", "user"}

IdentifierTypeEmail == "email"
IdentifierTypeUsername == "username"
IdentifierTypePhone == "phone"
IdentifierTypeDocumentNumber == "document_number"

AccessToken(k) == <<"access", k>>
RefreshTokenStr(k) == <<"refresh", k>>
AccessTokens == {AccessToken(k) : k \in 1..MaxTokens}
RefreshTokenStrs == {RefreshTokenStr(k) : k \in 1..MaxTokens}
UnknownToken == <<"unknown", 0>>

HashPassword(password) == <<"bcrypt", password>>
CheckPassword(password, hash) == hash = HashPassword(password)

(* Results of the service calls: errors.Unauthorized, errors.Forbidden, *)
(* errors.Internal, or a response.                                       *)
NoToken == <<"none", 0>>
Err(kind, msg) ==
    [kind |-> kind, msg |-> msg, access |-> NoToken, refresh |-> NoToken,
     user |-> "", tenant |-> "", roles |-> {}, perms |-> {}]
Unauthorized(msg) == Err("unauthorized", msg)
Forbidden(msg) == Err("forbidden", msg)
Internal(msg) == Err("internal", msg)
Response(access, refresh, user, tenant, rs, permissions) ==
    [kind |-> "ok", msg |-> "", access |-> access, refresh |-> refresh,
     user |-> user, tenant |-> tenant, roles |-> rs, perms |-> permissions]

\* fmt.Sprintf("Login with %s is not allowed for this tenant", identifierType)
NotAllowedMsg(identifierType) ==
    CASE identifierType = "email" -> "Login with email is not allowed for this tenant"
      [] identifierType = "username" -> "Login with username is not allowed for this tenant"
      [] identifierType = "phone" -> "Login with phone is not allowed for this tenant"
      [] OTHER -> "Login with document_number is not allowed for this tenant"

FindOne(rows) == IF rows = {} THEN {Nil} ELSE rows

----------------------------------------------------------------------------
(* Repositories *)

\* UserRepository.FindByIdentifier: the users one of whose identifier fields
\* equals the identifier ($or over email, username, phone, docNumber).
UserRepo_FindByIdentifier(identifier) ==
    {u \in users_auth : \/ u.Email = identifier
                        \/ u.Username = identifier
                        \/ u.Phone = identifier
                        \/ u.DocNumber = identifier}

\* UserRepository.FindByID
UserRepo_FindByID(id) == {u \in users_auth : u.ID = id}

\* UserRepository.UpdateLastLogin: $set lastLoginAt to now on the user's row
UserRepo_UpdateLastLogin(id) ==
    {IF u.ID = id THEN [u EXCEPT !.LastLoginAt = {now}] ELSE u : u \in users_auth}

\* A lookup that forgets the tenant
FindByUserAnyTenant(userID, tenantID) ==
    {ut \in user_tenants : ut.UserID = userID}

\* UserTenantRepository.FindByUserAndTenant
UserTenantRepo_FindByUserAndTenant(userID, tenantID) ==
    {ut \in user_tenants : ut.UserID = userID /\ ut.TenantID = tenantID}

\* TenantLoginConfigRepository.GetDefaultConfig
GetDefaultConfig(tenantID) ==
    [TenantID |-> tenantID,
     AllowedIdentifiers |-> {IdentifierTypeEmail, IdentifierTypeUsername},
     AllowRegistration |-> TRUE,
     PasswordMinLength |-> DefaultPasswordMinLength,
     PasswordRequireUpper |-> TRUE, PasswordRequireLower |-> TRUE,
     PasswordRequireDigit |-> TRUE, PasswordRequireSpec |-> FALSE,
     SessionTimeout |-> MinutesPerDay,
     MaxLoginAttempts |-> DefaultMaxLoginAttempts]

\* TenantLoginConfigRepository.FindByTenant: the tenant's row, or the default
\* configuration when there is none.
LoginConfigRepo_FindByTenant(tenantID) ==
    LET rows == {c \in tenant_login_configs : c.TenantID = tenantID}
    IN  IF rows = {} THEN GetDefaultConfig(tenantID) ELSE CHOOSE c \in rows : TRUE

\* RoleRepository.FindByNames: roles of that name that belong to the tenant
\* or to no tenant.
RoleRepo_FindByNames(names, tenantID) ==
    {r \in roles : /\ r.Name \in names
                   /\ (r.HasTenant => r.TenantID = tenantID)}

\* RoleRepository.GetPermissionsForRoles
GetPermissionsForRoles(names, tenantID) ==
    UNION {r.Permissions : r \in RoleRepo_FindByNames(names, tenantID)}

\* The projection of RefreshTokenRepository.FindByToken: _id, userId, token,
\* expiresAt, createdAt, revokedAt.  tenantId is not projected, so the decoded
\* row carries the zero value of TenantID.
ProjectRefreshToken(row) == [row EXCEPT !.TenantID = EmptyTenantID]

RefreshTokenRepo_FindByTokenAtExpiry(token) ==
    {ProjectRefreshToken(r) :
        r \in {x \in refresh_tokens : /\ x.Token = token
                                       /\ ~x.Revoked
                                       /\ x.ExpiresAt >= now}}

\* RefreshTokenRepository.FindByToken: the rows with that token that are not
\* revoked and expire after now, projected.
RefreshTokenRepo_FindByToken(token) ==
    {ProjectRefreshToken(r) :
        r \in {x \in refresh_tokens : /\ x.Token = token
                                       /\ ~x.Revoked
                                       /\ x.ExpiresAt > now}}

\* redisCache.Get("session:<token>"): the entry, unless its TTL has run out.
RedisGetSession(token) ==
    {s \in sessions : s.Token = token /\ now < s.Deadline}

----------------------------------------------------------------------------
(* domain.DetectIdentifierType *)

\* A detection that takes every identifier of a user for its username
DetectAsUsername(identifier, user) ==
    IF identifier \in {user.Email, user.Username, user.Phone, user.DocNumber}
        THEN IdentifierTypeUsername ELSE ""

DetectIdentifierType(identifier, user) ==
    IF user.Email = identifier THEN IdentifierTypeEmail
    ELSE IF user.Username = identifier THEN IdentifierTypeUsername
    ELSE IF user.Phone = identifier THEN IdentifierTypePhone
    ELSE IF user.DocNumber = identifier THEN IdentifierTypeDocumentNumber
    ELSE ""

----------------------------------------------------------------------------
(* MultiTenantAuthService.Login, steps 1 to 5: the error the call returns    *)
(* before it looks at the password, or Nil.  user is what FindByIdentifier   *)
(* returned and userTenant what FindByUserAndTenant returned (Nil for none). *)

LoginPreChecks(identifier, tenantID, user, userTenant) ==
    LET loginConfig == LoginConfigRepo_FindByTenant(tenantID)
        identifierType == DetectIdentifierType(identifier, user)
    IN  IF user = Nil THEN Unauthorized("Invalid credentials")
        ELSE IF identifierType = "" THEN Unauthorized("Invalid credentials")
        ELSE IF identifierType \notin loginConfig.AllowedIdentifiers
            THEN Forbidden(NotAllowedMsg(identifierType))
        ELSE IF userTenant = Nil
            THEN Forbidden("User does not have access to this tenant")
        ELSE IF ~userTenant.IsActive
            THEN Forbidden("User access to this tenant is deactivated")
        ELSE IF ~user.IsActive THEN Forbidden("User account is deactivated")
        ELSE Nil

\* Checks that tell a wrong password from an unknown identifier
LoginChecksInvalidPassword(identifier, password, tenantID, user, userTenant) ==
    LET pre == LoginPreChecks(identifier, tenantID, user, userTenant)
    IN  IF pre # Nil THEN pre
        ELSE IF ~CheckPassword(password, user.PasswordHash)
            THEN Unauthorized("Invalid password")
        ELSE Nil

\* Login, steps 1 to 6: the error the call returns, or Nil when the password
\* was verified.  A failed password check is not recorded anywhere.
LoginChecks(identifier, password, tenantID, user, userTenant) ==
    LET pre == LoginPreChecks(identifier, tenantID, user, userTenant)
    IN  IF pre # Nil THEN pre
        ELSE IF ~CheckPassword(password, user.PasswordHash)
            THEN Unauthorized("Invalid credentials")
        ELSE Nil

----------------------------------------------------------------------------
(* MultiTenantAuthServer.Login, the gRPC handler: a request with an empty    *)
(* identifier, password or tenant_id is rejected before the service is       *)
(* called; every error of the service becomes codes.Unauthenticated with the *)
(* error's text.                                                             *)

GrpcLoginValid(identifier, password, tenantID) ==
    identifier # "" /\ password # "" /\ tenantID # ""

GrpcLoginError(err) == [code |-> "Unauthenticated", msg |-> err.msg]

----------------------------------------------------------------------------
(* History records *)

NoResult == Err("none", "")

Op(op, identifier, password, tenantID, token, result, prior) ==
    [op |-> op, identifier |-> identifier, password |-> password,
     tenant |-> tenantID, token |-> token, result |-> result, prior |-> prior]

NoOp == Op("none", "", "", "", NoToken, NoResult, 0)

\* The history of failed password checks is kept only where on is TRUE
NoStreak == [on |-> FALSE, user |-> "", tenant |-> "", n |-> 0]

\* Failed password checks in a row for (userID, tenantID) at the current time
PriorFailures(userID, tenantID) ==
    IF failStreak.user = userID /\ failStreak.tenant = tenantID
        THEN failStreak.n ELSE 0

Min(a, b) == IF a < b THEN a ELSE b

\* hist.issued[k] is the call that generated token pair k; hist.loggedOut holds
\* the tokens for which a Logout has returned; hist.lost holds <<u, t, p, at>>
\* for a permission p that a change of the roles of (u, t) at time at took
\* away; hist.invalidated holds the pairs <<u, t>> whose permission cache was
\* invalidated after the last change of their roles.
NoHistory == [issued |-> <<>>, loggedOut |-> {}, lost |-> {}, invalidated |-> {}]

Issued(op, userID, tenantID) ==
    [hist EXCEPT !.issued = Append(@, [op |-> op, user |-> userID, tenant |-> tenantID])]

----------------------------------------------------------------------------
(* MultiTenantAuthService.generateTokens: a random access token, the session *)
(* under it in Redis when there is a Redis cache, a refresh token and its    *)
(* row in refresh_tokens.  Token strings are fresh: pair k is access token k *)
(* and refresh token k.                                                      *)

NewSession(accessToken, user, tenantID, rs) ==
    [Token |-> accessToken, UserID |-> user.ID, TenantID |-> tenantID,
     Email |-> user.Email, Roles |-> rs,
     ExpiresAt |-> now + SessionTTL, Deadline |-> now + SessionTTL]

NewRefreshToken(refreshTokenStr, user, tenantID) ==
    [Token |-> refreshTokenStr, UserID |-> user.ID, TenantID |-> tenantID,
     ExpiresAt |-> now + RefreshTTL, Revoked |-> FALSE]

\* redisCache.Set(key, value, ttl)
RedisSet(session) ==
    {s \in sessions : s.Token # session.Token} \cup {session}

\* redisCache.Delete(key)
RedisDelete(token) == {s \in sessions : s.Token # token}

generateTokens(user, tenantID, rs, permissions) ==
    /\ nextToken <= tokenLimit
    /\ sessions' = IF redisCache
                     THEN RedisSet(NewSession(AccessToken(nextToken), user, tenantID, rs))
                     ELSE sessions
    /\ refresh_tokens' = refresh_tokens \cup
                         {NewRefreshToken(RefreshTokenStr(nextToken), user, tenantID)}
    /\ nextToken' = nextToken + 1

\* LoginResponse.ExpiresIn, 86400 seconds, in units of the clock (days)
ExpiresIn == SessionTTL

\* The domain.LoginResponse generateTokens returns
LoginResponse(user, tenantID, rs, permissions) ==
    Response(AccessToken(nextToken), RefreshTokenStr(nextToken), user.ID, tenantID,
             rs, permissions)

----------------------------------------------------------------------------
(* MultiTenantAuthService.Login *)

Login(identifier, password, tenantID) ==
    \E user \in FindOne(UserRepo_FindByIdentifier(identifier)) :
    \E userTenant \in FindOne(IF user = Nil THEN {}
                              ELSE UserTenantRepo_FindByUserAndTenant(user.ID, tenantID)) :
        LET err == LoginChecks(identifier, password, tenantID, user, userTenant)
            checked == LoginPreChecks(identifier, tenantID, user, userTenant) = Nil
            prior == IF user = Nil THEN 0 ELSE PriorFailures(user.ID, tenantID)
            cap == LoginConfigRepo_FindByTenant(tenantID).MaxLoginAttempts
        IN  /\ IF err # Nil
                 THEN /\ last' = Op("Login", identifier, password, tenantID, NoToken, err, prior)
                      /\ failStreak' = IF checked /\ failStreak.on
                                         THEN [on |-> TRUE, user |-> user.ID,
                                               tenant |-> tenantID,
                                               n |-> Min(prior + 1, cap)]
                                         ELSE failStreak
                      /\ UNCHANGED <<sessions, refresh_tokens, nextToken, hist,
                                     users_auth>>
                 ELSE /\ generateTokens(user, tenantID, userTenant.Roles,
                            GetPermissionsForRoles(userTenant.Roles, tenantID))
                      /\ users_auth' = UserRepo_UpdateLastLogin(user.ID)
                      /\ hist' = Issued("Login", user.ID, tenantID)
                      /\ last' = Op("Login", identifier, password, tenantID, NoToken,
                                    LoginResponse(user, tenantID, userTenant.Roles,
                                        GetPermissionsForRoles(userTenant.Roles, tenantID)),
                                    prior)
                      /\ failStreak' = [NoStreak EXCEPT !.on = failStreak.on]
            /\ UNCHANGED <<user_tenants, tenant_login_configs, roles,
                           redisCache, permCache, now, changes, vt, gp, calls, gw, tokenLimit>>

\* The steps of generateTokens that can fail: utils.GenerateRandomString
\* ("random"), redisCache.Set ("redis"), jwtManager.GenerateToken ("sign") and
\* refreshTokenRepo.Create ("create")
TokenFaults == {"random", "redis", "sign", "create"}

\* An issuance for which a failed refreshTokenRepo.Create is fatal too
generateTokensErrorCreateFatal(fault) ==
    CASE fault = "random" -> Internal("Failed to generate access token")
      [] fault = "redis" -> Internal("Failed to create session")
      [] fault = "sign" -> Internal("Failed to generate refresh token")
      [] OTHER -> Internal("Failed to store refresh token")

\* The error generateTokens returns when the step fails, Nil when it goes on
generateTokensError(fault) ==
    CASE fault = "random" -> Internal("Failed to generate access token")
      [] fault = "redis" -> Internal("Failed to create session")
      [] fault = "sign" -> Internal("Failed to generate refresh token")
      [] OTHER -> Nil

\* generateTokens with a failing step: what was written before the step
\* stays.  A failed redisCache.Set returns before anything else is done, a
\* failed jwtManager.GenerateToken returns after the session was stored, a
\* failed refreshTokenRepo.Create is logged and the call goes on.
generateTokensFault(user, tenantID, rs, permissions, fault) ==
    /\ nextToken <= tokenLimit
    /\ fault = "redis" => redisCache
    /\ sessions' = IF redisCache /\ fault \in {"sign", "create"}
                     THEN RedisSet(NewSession(AccessToken(nextToken), user, tenantID, rs))
                     ELSE sessions
    /\ refresh_tokens' = refresh_tokens
    /\ nextToken' = IF fault = "random" THEN nextToken ELSE nextToken + 1

\* Login whose checks pass and whose generateTokens meets a failing step
LoginFault(identifier, password, tenantID, fault) ==
    \E user \in FindOne(UserRepo_FindByIdentifier(identifier)) :
    \E userTenant \in FindOne(IF user = Nil THEN {}
                              ELSE UserTenantRepo_FindByUserAndTenant(user.ID, tenantID)) :
        LET err == generateTokensError(fault)
            permissions == GetPermissionsForRoles(userTenant.Roles, tenantID)
        IN  /\ LoginChecks(identifier, password, tenantID, user, userTenant) = Nil
            /\ generateTokensFault(user, tenantID, userTenant.Roles, permissions, fault)
            /\ IF err # Nil
                   THEN /\ last' = Op("Login", identifier, password, tenantID, NoToken,
                                      err, 0)
                        /\ UNCHANGED <<users_auth, hist>>
                   ELSE /\ last' = Op("Login", identifier, password, tenantID, NoToken,
                                      LoginResponse(user, tenantID, userTenant.Roles,
                                                    permissions), 0)
                        /\ users_auth' = UserRepo_UpdateLastLogin(user.ID)
                        /\ hist' = Issued("Login", user.ID, tenantID)
            /\ UNCHANGED <<user_tenants, tenant_login_configs, roles, redisCache,
                           permCache, now, changes, failStreak, vt, gp, calls, gw,
                           tokenLimit>>

----------------------------------------------------------------------------
(* MultiTenantAuthService.VerifyToken.  session is what the Redis lookup    *)
(* returned, user what FindByID returned, userTenant what                    *)
(* FindByUserAndTenant returned (Nil for none).                              *)

\* A validation that does not look at the user's IsActive
VerifyChecksAnyUser(token, session, user, userTenant) ==
    IF ~redisCache THEN Internal("Session store not available")
    ELSE IF session = Nil THEN Unauthorized("Invalid or expired token")
    ELSE IF now > session.ExpiresAt THEN Unauthorized("Token expired")
    ELSE IF user = Nil THEN Unauthorized("User not found")
    ELSE IF userTenant = Nil THEN Forbidden("User does not have access to this tenant")
    ELSE IF ~userTenant.IsActive
        THEN Forbidden("User does not have access to this tenant")
    ELSE Response(token, NoToken, session.UserID, session.TenantID, session.Roles,
                  GetPermissionsForRoles(session.Roles, session.TenantID))

VerifyChecks(token, session, user, userTenant) ==
    IF ~redisCache THEN Internal("Session store not available")
    ELSE IF session = Nil THEN Unauthorized("Invalid or expired token")
    ELSE IF now > session.ExpiresAt THEN Unauthorized("Token expired")
    ELSE IF user = Nil THEN Unauthorized("User not found")
    ELSE IF ~user.IsActive THEN Forbidden("User account is deactivated")
    ELSE IF userTenant = Nil THEN Forbidden("User does not have access to this tenant")
    ELSE IF ~userTenant.IsActive
        THEN Forbidden("User does not have access to this tenant")
    ELSE Response(token, NoToken, session.UserID, session.TenantID, session.Roles,
                  GetPermissionsForRoles(session.Roles, session.TenantID))

\* The results VerifyToken(token) can return in the current state
VerifyOutcomes(token) ==
    UNION {UNION {{VerifyChecks(token, session, user, userTenant) :
                      userTenant \in FindOne(IF session = Nil THEN {}
                          ELSE UserTenantRepo_FindByUserAndTenant(session.UserID,
                                                                 session.TenantID))} :
                  user \in FindOne(IF session = Nil THEN {}
                                   ELSE UserRepo_FindByID(session.UserID))} :
           session \in FindOne(IF redisCache THEN RedisGetSession(token) ELSE {})}

\* The session store after the call: an expired session is deleted.
VerifySessions(token) ==
    IF redisCache /\ \E session \in RedisGetSession(token) : now > session.ExpiresAt
        THEN RedisDelete(token) ELSE sessions

VerifyToken(token) ==
    \E result \in VerifyOutcomes(token) :
        /\ last' = Op("VerifyToken", "", "", "", token, result, 0)
        /\ sessions' = VerifySessions(token)
        /\ UNCHANGED <<users_auth, user_tenants, tenant_login_configs, roles,
                       refresh_tokens, redisCache, permCache, now, nextToken, changes,
                       failStreak, vt, gp, calls, gw, hist, tokenLimit>>

\* VerifyToken step by step, one store access per step, for the scenarios in
\* which other calls run between its steps.  vt.afterLogout: a Logout of the
\* token had returned when the call started; vt.overlapped: a Logout of the
\* token returned while the call was running.
VerifyReturn(token, result, afterLogout) ==
    /\ vt' = [pc |-> "returned", token |-> token, session |-> Nil, user |-> Nil,
              afterLogout |-> afterLogout,
              overlapped |-> ~afterLogout /\ token \in hist.loggedOut,
              result |-> result]
    /\ last' = Op("VerifyToken", "", "", "", token, result, 0)

\* Step 1: the session is read from Redis and its expiry checked
VerifyGetSession(token) ==
    /\ vt.pc \in {"idle", "returned"}
    /\ \E session \in FindOne(IF redisCache THEN RedisGetSession(token) ELSE {}) :
        IF ~redisCache
            THEN /\ VerifyReturn(token, Internal("Session store not available"),
                                 token \in hist.loggedOut)
                 /\ UNCHANGED sessions
        ELSE IF session = Nil
            THEN /\ VerifyReturn(token, Unauthorized("Invalid or expired token"),
                                 token \in hist.loggedOut)
                 /\ UNCHANGED sessions
        ELSE IF now > session.ExpiresAt
            THEN /\ VerifyReturn(token, Unauthorized("Token expired"),
                                 token \in hist.loggedOut)
                 /\ sessions' = RedisDelete(token)
        ELSE /\ vt' = [pc |-> "user", token |-> token, session |-> session,
                       user |-> Nil, afterLogout |-> token \in hist.loggedOut,
                       overlapped |-> FALSE, result |-> NoResult]
             /\ UNCHANGED <<sessions, last>>
    /\ UNCHANGED <<users_auth, user_tenants, tenant_login_configs, roles,
                   refresh_tokens, redisCache, permCache, now, nextToken, changes,
                   failStreak, gp, calls, gw, hist, tokenLimit>>

\* Step 2: the user is read and checked
VerifyFindUser ==
    /\ vt.pc = "user"
    /\ \E user \in FindOne(UserRepo_FindByID(vt.session.UserID)) :
        IF user = Nil
            THEN VerifyReturn(vt.token, Unauthorized("User not found"), vt.afterLogout)
        ELSE IF ~user.IsActive
            THEN VerifyReturn(vt.token, Forbidden("User account is deactivated"),
                              vt.afterLogout)
        ELSE /\ vt' = [vt EXCEPT !.pc = "membership", !.user = user]
             /\ UNCHANGED last
    /\ UNCHANGED <<users_auth, user_tenants, tenant_login_configs, roles,
                   refresh_tokens, redisCache, sessions, permCache, now, nextToken,
                   changes, failStreak, gp, calls, gw, hist, tokenLimit>>

\* Step 3: the membership is read and checked, and the call returns
VerifyFindMembership ==
    /\ vt.pc = "membership"
    /\ \E userTenant \in FindOne(UserTenantRepo_FindByUserAndTenant(
                                    vt.session.UserID, vt.session.TenantID)) :
        IF userTenant = Nil \/ ~userTenant.IsActive
            THEN VerifyReturn(vt.token,
                              Forbidden("User does not have access to this tenant"),
                              vt.afterLogout)
        ELSE VerifyReturn(vt.token,
                 Response(vt.token, NoToken, vt.session.UserID, vt.session.TenantID,
                          vt.session.Roles,
                          GetPermissionsForRoles(vt.session.Roles, vt.session.TenantID)),
                 vt.afterLogout)
    /\ UNCHANGED <<users_auth, user_tenants, tenant_login_configs, roles,
                   refresh_tokens, redisCache, sessions, permCache, now, nextToken,
                   changes, failStreak, gp, calls, gw, hist, tokenLimit>>

----------------------------------------------------------------------------
(* MultiTenantAuthService.RefreshToken.  refreshToken is what FindByToken   *)
(* returned, with the fields its projection decodes.                         *)

RefreshChecks(refreshToken, user, userTenant) ==
    IF refreshToken = Nil THEN Unauthorized("Invalid refresh token")
    ELSE IF refreshToken.Revoked THEN Unauthorized("Invalid refresh token")
    ELSE IF now > refreshToken.ExpiresAt THEN Unauthorized("Refresh token expired")
    ELSE IF user = Nil THEN Unauthorized("User not found")
    ELSE IF userTenant = Nil THEN Forbidden("User does not have access to this tenant")
    ELSE IF ~userTenant.IsActive
        THEN Forbidden("User does not have access to this tenant")
    ELSE Nil

RefreshToken(refreshTokenStr) ==
    \E refreshToken \in FindOne(RefreshTokenRepo_FindByToken(refreshTokenStr)) :
    \E user \in FindOne(IF refreshToken = Nil THEN {}
                        ELSE UserRepo_FindByID(refreshToken.UserID)) :
    \E userTenant \in FindOne(IF refreshToken = Nil THEN {}
                              ELSE UserTenantRepo_FindByUserAndTenant(refreshToken.UserID,
                                                                     refreshToken.TenantID)) :
        LET err == RefreshChecks(refreshToken, user, userTenant)
        IN  /\ IF err # Nil
                 THEN /\ last' = Op("RefreshToken", "", "", "", refreshTokenStr, err, 0)
                      /\ UNCHANGED <<sessions, refresh_tokens, nextToken, hist>>
                 ELSE /\ generateTokens(user, refreshToken.TenantID, userTenant.Roles,
                            GetPermissionsForRoles(userTenant.Roles, refreshToken.TenantID))
                      /\ hist' = Issued("RefreshToken", user.ID, refreshToken.TenantID)
                      /\ last' = Op("RefreshToken", "", "", "", refreshTokenStr,
                                    LoginResponse(user, refreshToken.TenantID, userTenant.Roles,
                                        GetPermissionsForRoles(userTenant.Roles,
                                                               refreshToken.TenantID)),
                                    0)
            /\ UNCHANGED <<users_auth, user_tenants, tenant_login_configs, roles,
                           redisCache, permCache, now, changes, failStreak, vt, gp, calls, gw,
                           tokenLimit>>

\* RefreshToken whose checks pass and whose generateTokens meets a failing step
RefreshTokenFault(refreshTokenStr, fault) ==
    \E refreshToken \in FindOne(RefreshTokenRepo_FindByToken(refreshTokenStr)) :
    \E user \in FindOne(IF refreshToken = Nil THEN {}
                        ELSE UserRepo_FindByID(refreshToken.UserID)) :
    \E userTenant \in FindOne(IF refreshToken = Nil THEN {}
                              ELSE UserTenantRepo_FindByUserAndTenant(refreshToken.UserID,
                                                                     refreshToken.TenantID)) :
        LET err == generateTokensError(fault)
        IN  /\ RefreshChecks(refreshToken, user, userTenant) = Nil
            /\ generateTokensFault(user, refreshToken.TenantID, userTenant.Roles,
                   GetPermissionsForRoles(userTenant.Roles, refreshToken.TenantID), fault)
            /\ IF err # Nil
                   THEN /\ last' = Op("RefreshToken", "", "", "", refreshTokenStr, err, 0)
                        /\ UNCHANGED hist
                   ELSE /\ last' = Op("RefreshToken", "", "", "", refreshTokenStr,
                                      LoginResponse(user, refreshToken.TenantID,
                                          userTenant.Roles,
                                          GetPermissionsForRoles(userTenant.Roles,
                                                                 refreshToken.TenantID)),
                                      0)
                        /\ hist' = Issued("RefreshToken", user.ID, refreshToken.TenantID)
            /\ UNCHANGED <<users_auth, user_tenants, tenant_login_configs, roles,
                           redisCache, permCache, now, changes, failStreak, vt, gp, calls,
                           gw, tokenLimit>>

\* jwtManager.GenerateToken signs the claims user id, tenant id, email, roles
\* and permissions with iat and exp in whole seconds.  The clock of the model
\* is coarser than a second: a token signed now for the claims of a row that
\* was written at the same time of the clock (same user, same tenant, same
\* expiry) is signed in the same second or in a later one.  The strings it
\* can be equal to are the tokens of those rows.
GenerateTokenCollisions(user, tenantID) ==
    {r.Token : r \in {x \in refresh_tokens : /\ x.UserID = user.ID
                                               /\ x.TenantID = tenantID
                                               /\ x.ExpiresAt = now + RefreshTTL}}

\* generateTokens in the second in which refreshTokenStr was signed for the
\* same claims: the session is stored under a new random access token, the
\* unique index on token rejects the refresh token row, which is logged, and
\* the response carries refreshTokenStr again.
generateTokensSameSecond(user, tenantID, rs, refreshTokenStr) ==
    /\ nextToken <= tokenLimit
    /\ refreshTokenStr \in GenerateTokenCollisions(user, tenantID)
    /\ sessions' = IF redisCache
                     THEN RedisSet(NewSession(AccessToken(nextToken), user, tenantID, rs))
                     ELSE sessions
    /\ refresh_tokens' = refresh_tokens
    /\ nextToken' = nextToken + 1

\* Login whose checks pass, in the second of an earlier issuance
LoginSameSecond(identifier, password, tenantID) ==
    \E user \in FindOne(UserRepo_FindByIdentifier(identifier)) :
    \E userTenant \in FindOne(IF user = Nil THEN {}
                              ELSE UserTenantRepo_FindByUserAndTenant(user.ID, tenantID)) :
        /\ LoginChecks(identifier, password, tenantID, user, userTenant) = Nil
        /\ \E signed \in GenerateTokenCollisions(user, tenantID) :
            /\ generateTokensSameSecond(user, tenantID, userTenant.Roles, signed)
            /\ last' = Op("Login", identifier, password, tenantID, NoToken,
                          Response(AccessToken(nextToken), signed, user.ID, tenantID,
                                   userTenant.Roles,
                                   GetPermissionsForRoles(userTenant.Roles, tenantID)), 0)
        /\ users_auth' = UserRepo_UpdateLastLogin(user.ID)
        /\ hist' = Issued("Login", user.ID, tenantID)
        /\ UNCHANGED <<user_tenants, tenant_login_configs, roles, redisCache,
                       permCache, now, changes, failStreak, vt, gp, calls, gw,
                       tokenLimit>>

\* RefreshToken whose checks pass, in the second of an earlier issuance
RefreshTokenSameSecond(refreshTokenStr) ==
    \E refreshToken \in FindOne(RefreshTokenRepo_FindByToken(refreshTokenStr)) :
    \E user \in FindOne(IF refreshToken = Nil THEN {}
                        ELSE UserRepo_FindByID(refreshToken.UserID)) :
    \E userTenant \in FindOne(IF refreshToken = Nil THEN {}
                              ELSE UserTenantRepo_FindByUserAndTenant(refreshToken.UserID,
                                                                     refreshToken.TenantID)) :
        /\ RefreshChecks(refreshToken, user, userTenant) = Nil
        /\ \E signed \in GenerateTokenCollisions(user, refreshToken.TenantID) :
            /\ generateTokensSameSecond(user, refreshToken.TenantID, userTenant.Roles,
                                        signed)
            /\ last' = Op("RefreshToken", "", "", "", refreshTokenStr,
                          Response(AccessToken(nextToken), signed, user.ID,
                                   refreshToken.TenantID, userTenant.Roles,
                                   GetPermissionsForRoles(userTenant.Roles,
                                                          refreshToken.TenantID)), 0)
        /\ hist' = Issued("RefreshToken", user.ID, refreshToken.TenantID)
        /\ UNCHANGED <<users_auth, user_tenants, tenant_login_configs, roles,
                       redisCache, permCache, now, changes, failStreak, vt, gp, calls,
                       gw, tokenLimit>>

\* RefreshTokenRepository.Revoke, as AuthService.Logout calls it: $set
\* revokedAt on the rows with that token
RefreshTokenRepo_Revoke(token) ==
    /\ changes < MaxChanges
    /\ \E r \in refresh_tokens : r.Token = token /\ ~r.Revoked
    /\ refresh_tokens' = {IF r.Token = token THEN [r EXCEPT !.Revoked = TRUE] ELSE r :
                             r \in refresh_tokens}
    /\ changes' = changes + 1
    /\ last' = NoOp
    /\ UNCHANGED <<users_auth, user_tenants, tenant_login_configs, roles, redisCache,
                   sessions, permCache, now, nextToken, tokenLimit, failStreak, vt, gp,
                   calls, gw, hist>>

\* The clock advances by days: to the day before a refresh token issued now
\* expires, or by one day
Advance(days) ==
    /\ now + days <= RefreshTTL + MaxTime
    /\ now' = now + days
    /\ failStreak' = [NoStreak EXCEPT !.on = failStreak.on]
    /\ last' = NoOp
    /\ UNCHANGED <<users_auth, user_tenants, tenant_login_configs, roles,
                   refresh_tokens, redisCache, sessions, permCache, nextToken,
                   changes, vt, gp, calls, gw, hist, tokenLimit>>

----------------------------------------------------------------------------
(* MultiTenantAuthService.Logout: deletes the session key, nothing else *)

\* A logout that leaves the session in the store
LogoutKeepsSession(token) == sessions

\* A logout that ends every session of the user the token belongs to
LogoutSessionsOfUser(token) ==
    {s \in sessions : \A t \in sessions : t.Token = token => s.UserID # t.UserID}

LogoutSessions(token) == IF redisCache THEN RedisDelete(token) ELSE sessions

Logout(token) ==
    /\ sessions' = LogoutSessions(token)
    /\ last' = Op("Logout", "", "", "", token, NoResult, 0)
    /\ hist' = [hist EXCEPT !.loggedOut = @ \cup {token}]
    /\ UNCHANGED <<users_auth, user_tenants, tenant_login_configs, roles,
                   refresh_tokens, redisCache, permCache, now, nextToken, changes,
                   failStreak, vt, gp, calls, gw, tokenLimit>>

----------------------------------------------------------------------------
(* Changes to users and memberships *)

\* UserRepository.Update with a changed IsActive
UpdateUser(userID, isActive) ==
    /\ changes < MaxChanges
    /\ \E u \in UserRepo_FindByID(userID) :
        /\ u.IsActive # isActive
        /\ users_auth' = (users_auth \ {u}) \cup {[u EXCEPT !.IsActive = isActive]}
    /\ changes' = changes + 1
    /\ last' = NoOp
    /\ UNCHANGED <<user_tenants, tenant_login_configs, roles, refresh_tokens,
                   redisCache, sessions, permCache, now, nextToken, failStreak,
                   vt, gp, calls, gw, hist, tokenLimit>>

\* UserTenantRepository.UpdateRoles: $set roles on the matching row
UserTenantRepo_UpdateRoles(userID, tenantID, rs) ==
    {IF ut.UserID = userID /\ ut.TenantID = tenantID
        THEN [ut EXCEPT !.Roles = rs] ELSE ut : ut \in user_tenants}

UserTenantRepo_CreateInactive(userID, tenantID, rs) ==
    user_tenants \cup
        {[UserID |-> userID, TenantID |-> tenantID, Roles |-> rs, IsActive |-> FALSE]}

\* UserTenantRepository.Create: inserts the row, active
UserTenantRepo_Create(userID, tenantID, rs) ==
    user_tenants \cup
        {[UserID |-> userID, TenantID |-> tenantID, Roles |-> rs, IsActive |-> TRUE]}

\* UserTenantRepository.Deactivate / Activate: $set isActive on the matching row
UserTenantRepo_SetActive(userID, tenantID, isActive) ==
    {IF ut.UserID = userID /\ ut.TenantID = tenantID
        THEN [ut EXCEPT !.IsActive = isActive] ELSE ut : ut \in user_tenants}

\* UserTenantRepository.Delete
UserTenantRepo_Delete(userID, tenantID) ==
    {ut \in user_tenants : ~(ut.UserID = userID /\ ut.TenantID = tenantID)}

\* MultiTenantAuthService.AddUserToTenant: an existing row gets the roles,
\* otherwise a new active row is created.
AddUserToTenantRows(userID, tenantID, rs) ==
    IF UserTenantRepo_FindByUserAndTenant(userID, tenantID) # {}
        THEN UserTenantRepo_UpdateRoles(userID, tenantID, rs)
        ELSE UserTenantRepo_Create(userID, tenantID, rs)

MembershipChange(rows) ==
    /\ changes < MaxChanges
    /\ rows # user_tenants
    /\ user_tenants' = rows
    /\ changes' = changes + 1
    /\ last' = NoOp
    /\ UNCHANGED <<users_auth, tenant_login_configs, roles, refresh_tokens,
                   redisCache, sessions, permCache, now, nextToken, failStreak,
                   vt, gp, calls, gw, hist, tokenLimit>>

AddUserToTenant(userID, tenantID, rs) ==
    MembershipChange(AddUserToTenantRows(userID, tenantID, rs))

\* MultiTenantAuthService.RemoveUserFromTenant
RemoveUserFromTenant(userID, tenantID) ==
    MembershipChange(UserTenantRepo_SetActive(userID, tenantID, FALSE))

ActivateMembership(userID, tenantID) ==
    MembershipChange(UserTenantRepo_SetActive(userID, tenantID, TRUE))

DeleteMembership(userID, tenantID) ==
    MembershipChange(UserTenantRepo_Delete(userID, tenantID))

\* The clock advances by one unit of time
Tick ==
    /\ now < MaxTime
    /\ now' = now + 1
    /\ failStreak' = [NoStreak EXCEPT !.on = failStreak.on]
    /\ last' = NoOp
    /\ UNCHANGED <<users_auth, user_tenants, tenant_login_configs, roles,
                   refresh_tokens, redisCache, sessions, permCache, nextToken,
                   changes, vt, gp, calls, gw, hist, tokenLimit>>

----------------------------------------------------------------------------
(* Register and AddUserToTenant, one database operation at a time *)

\* len(password) and the character classes of utils.Contains..., on the
\* passwords of the model
PasswordLen(password) ==
    CASE password \in {"Passw0rd", "password", "Passw0r!", "PASSW0R!", "passw0r!",
                       "Passwor!", "12345678"} -> 8
      [] password \in {"Passw0r", "Pa5sw!r"} -> 7
      [] password = "Passw0rd!" -> 9
      [] password = "wrong" -> 5
      [] password = "Pw1" -> 3
      [] OTHER -> 2

ContainsUppercase(password) ==
    password \in {"Passw0rd", "Pw1", "Passw0r!", "PASSW0R!", "Passwor!", "Passw0r",
                  "Pa5sw!r", "Passw0rd!"}
ContainsLowercase(password) ==
    password \in {"Passw0rd", "password", "Pw1", "pw", "wrong", "Passw0r!", "passw0r!",
                  "Passwor!", "Passw0r", "Pa5sw!r", "Passw0rd!"}
ContainsDigit(password) ==
    password \in {"Passw0rd", "Pw1", "Passw0r!", "PASSW0R!", "passw0r!", "12345678",
                  "Passw0r", "Pa5sw!r", "Passw0rd!"}
ContainsSpecialChar(password) ==
    password \in {"Passw0r!", "PASSW0R!", "passw0r!", "Passwor!", "Pa5sw!r", "Passw0rd!"}

BadRequest(msg) == [kind |-> "bad_request", msg |-> msg]
Conflict(msg) == [kind |-> "conflict", msg |-> msg]

\* A validation that asks for more than PasswordMinLength characters
validatePasswordLonger(password, config) ==
    IF PasswordLen(password) <= config.PasswordMinLength
        THEN BadRequest("Password must be at least %d characters long")
    ELSE IF config.PasswordRequireUpper /\ ~ContainsUppercase(password)
        THEN BadRequest("Password must contain at least one uppercase letter")
    ELSE IF config.PasswordRequireLower /\ ~ContainsLowercase(password)
        THEN BadRequest("Password must contain at least one lowercase letter")
    ELSE IF config.PasswordRequireDigit /\ ~ContainsDigit(password)
        THEN BadRequest("Password must contain at least one digit")
    ELSE IF config.PasswordRequireSpec /\ ~ContainsSpecialChar(password)
        THEN BadRequest("Password must contain at least one special character")
    ELSE Nil

\* MultiTenantAuthService.validatePassword: the first requirement the password
\* does not meet, or Nil
validatePassword(password, config) ==
    IF PasswordLen(password) < config.PasswordMinLength
        THEN BadRequest("Password must be at least %d characters long")
    ELSE IF config.PasswordRequireUpper /\ ~ContainsUppercase(password)
        THEN BadRequest("Password must contain at least one uppercase letter")
    ELSE IF config.PasswordRequireLower /\ ~ContainsLowercase(password)
        THEN BadRequest("Password must contain at least one lowercase letter")
    ELSE IF config.PasswordRequireDigit /\ ~ContainsDigit(password)
        THEN BadRequest("Password must contain at least one digit")
    ELSE IF config.PasswordRequireSpec /\ ~ContainsSpecialChar(password)
        THEN BadRequest("Password must contain at least one special character")
    ELSE Nil

\* A call of validatePassword, as Register makes it with the login
\* configuration of the tenant
ValidatePasswordCall(password, config) ==
    /\ last' = Op("validatePassword", "", password, config.TenantID, NoToken,
                  [password |-> password, config |-> config,
                   err |-> validatePassword(password, config)], 0)
    /\ UNCHANGED <<users_auth, user_tenants, tenant_login_configs, roles,
                   refresh_tokens, redisCache, sessions, permCache, now, nextToken,
                   tokenLimit, changes, failStreak, vt, gp, calls, gw, hist>>

\* existingUser, _ := FindByIdentifier(identifier): nil when the identifier is
\* empty (no lookup), when the lookup fails (the error is dropped) and when
\* no user has it
RegisterExisting(identifier, lookupFails) ==
    identifier # "" /\ ~lookupFails /\ UserRepo_FindByIdentifier(identifier) # {}

\* Register, steps 1 to 3: the result that ends the call, or Nil
RegisterChecks(in, lookupFails) ==
    LET loginConfig == LoginConfigRepo_FindByTenant(in.tenant)
    IN  IF ~loginConfig.AllowRegistration
            THEN [kind |-> "forbidden",
                  msg |-> "Registration is not allowed for this tenant"]
        ELSE IF validatePassword(in.password, loginConfig) # Nil
            THEN validatePassword(in.password, loginConfig)
        ELSE IF RegisterExisting(in.email, lookupFails)
            THEN Conflict("Email already exists")
        ELSE IF RegisterExisting(in.username, lookupFails)
            THEN Conflict("Username already exists")
        ELSE IF RegisterExisting(in.phone, lookupFails)
            THEN Conflict("Phone already exists")
        ELSE IF RegisterExisting(in.docNumber, lookupFails)
            THEN Conflict("Document number already exists")
        ELSE Nil

\* The ObjectID InsertOne gives the next user
NewUserIDs == <<"u3", "u4", "u5", "u6">>
NewUserID == NewUserIDs[Cardinality(users_auth) - 1]

UserNoIndexes(user) == TRUE

\* The unique sparse indexes of users_auth (email, username, phone,
\* docNumber): a row with an empty field has no entry in that index
UserIndexesAllow(user) ==
    \A u \in users_auth :
        /\ user.Email # "" => u.Email # user.Email
        /\ user.Username # "" => u.Username # user.Username
        /\ user.Phone # "" => u.Phone # user.Phone
        /\ user.DocNumber # "" => u.DocNumber # user.DocNumber

UserTenantNoIndex(userID, tenantID) == TRUE

\* The unique index of user_tenants on (userId, tenantId)
UserTenantIndexAllows(userID, tenantID) ==
    UserTenantRepo_FindByUserAndTenant(userID, tenantID) = {}

NoRegister ==
    [pc |-> "idle", op |-> "", in |-> Nil, lookupFails |-> FALSE, existing |-> FALSE,
     facts |-> Nil, user |-> "", result |-> [kind |-> "none", msg |-> ""]]

CallUnchanged ==
    UNCHANGED <<tenant_login_configs, roles, refresh_tokens, redisCache, sessions,
                permCache, now, nextToken, tokenLimit, changes, failStreak, vt, gp,
                gw, hist>>

\* The call returns
CallReturn(c, call, result) ==
    /\ calls' = [calls EXCEPT ![c] = [call EXCEPT !.pc = "returned", !.result = result]]
    /\ last' = Op(call.op, "", "", "", NoToken,
                  [call EXCEPT !.pc = "returned", !.result = result], 0)

\* History: what holds of the stores when Register starts
RegisterFacts(in) ==
    [allowed |-> LoginConfigRepo_FindByTenant(in.tenant).AllowRegistration,
     policy |-> validatePassword(in.password, LoginConfigRepo_FindByTenant(in.tenant)) = Nil,
     taken |-> \E identifier \in {in.email, in.username, in.phone, in.docNumber} \ {""} :
                   UserRepo_FindByIdentifier(identifier) # {},
     users |-> users_auth,
     members |-> user_tenants]

\* Register, steps 1 to 4: the configuration of the tenant, the password
\* policy, the identifier lookups and the hash
Register_Check(c, in, lookupFails) ==
    /\ calls[c].pc = "idle"
    /\ LET call == [NoRegister EXCEPT
                       !.op = "Register", !.in = in, !.lookupFails = lookupFails,
                       !.facts = RegisterFacts(in)]
       IN  IF RegisterChecks(in, lookupFails) # Nil
               THEN CallReturn(c, call, RegisterChecks(in, lookupFails))
               ELSE /\ calls' = [calls EXCEPT ![c] = [call EXCEPT !.pc = "create"]]
                    /\ last' = NoOp
    /\ UNCHANGED <<users_auth, user_tenants>>
    /\ CallUnchanged

\* Step 5: userRepo.Create; a duplicate key ends the call with the error
Register_CreateUser(c) ==
    /\ calls[c].pc = "create"
    /\ LET in == calls[c].in
           user == [ID |-> NewUserID, Email |-> in.email, Username |-> in.username,
                    Phone |-> in.phone, DocNumber |-> in.docNumber,
                    PasswordHash |-> HashPassword(in.password),
                    IsActive |-> TRUE, LastLoginAt |-> {}]
       IN  IF UserIndexesAllow(user)
               THEN /\ users_auth' = users_auth \cup {user}
                    /\ calls' = [calls EXCEPT ![c].pc = "membership",
                                              ![c].user = user.ID]
                    /\ last' = NoOp
               ELSE /\ CallReturn(c, calls[c],
                                  [kind |-> "error", msg |-> "failed to create user"])
                    /\ UNCHANGED users_auth
    /\ UNCHANGED user_tenants
    /\ CallUnchanged

\* Step 6: userTenantRepo.Create with the roles, or the default role; when
\* the insert fails the error is logged and the user is returned all the same
Register_CreateMembership(c, insertFails) ==
    /\ calls[c].pc = "membership"
    /\ LET in == calls[c].in
           rs == IF in.roles = {} THEN {"user"} ELSE in.roles
       IN  user_tenants' =
               IF ~insertFails /\ UserTenantIndexAllows(calls[c].user, in.tenant)
                   THEN UserTenantRepo_Create(calls[c].user, in.tenant, rs)
                   ELSE user_tenants
    /\ CallReturn(c, calls[c], [kind |-> "ok", msg |-> ""])
    /\ UNCHANGED users_auth
    /\ CallUnchanged

\* AddUserToTenant, step 1: FindByUserAndTenant
AddUserToTenant_Find(c, userID, tenantID, rs) ==
    /\ calls[c].pc = "idle"
    /\ calls' = [calls EXCEPT ![c] =
           [NoRegister EXCEPT
               !.pc = "write", !.op = "AddUserToTenant", !.user = userID,
               !.in = [tenant |-> tenantID, roles |-> rs],
               !.existing = UserTenantRepo_FindByUserAndTenant(userID, tenantID) # {}]]
    /\ last' = NoOp
    /\ UNCHANGED <<users_auth, user_tenants>>
    /\ CallUnchanged

\* Step 2: UpdateRoles on the row that was found (an error when it matches no
\* row), else Create (an error when the index has the key)
AddUserToTenant_Write(c) ==
    /\ calls[c].pc = "write"
    /\ LET userID == calls[c].user
           tenantID == calls[c].in.tenant
           found == UserTenantRepo_FindByUserAndTenant(userID, tenantID) # {}
       IN  IF calls[c].existing
               THEN IF found
                   THEN /\ user_tenants' =
                               UserTenantRepo_UpdateRoles(userID, tenantID,
                                                          calls[c].in.roles)
                        /\ CallReturn(c, calls[c], [kind |-> "ok", msg |-> ""])
                   ELSE /\ UNCHANGED user_tenants
                        /\ CallReturn(c, calls[c],
                               [kind |-> "error",
                                msg |-> "user-tenant relationship not found"])
               ELSE IF UserTenantIndexAllows(userID, tenantID)
                   THEN /\ user_tenants' =
                               UserTenantRepo_Create(userID, tenantID, calls[c].in.roles)
                        /\ CallReturn(c, calls[c], [kind |-> "ok", msg |-> ""])
                   ELSE /\ UNCHANGED user_tenants
                        /\ CallReturn(c, calls[c],
                               [kind |-> "error",
                                msg |-> "failed to create user-tenant relationship"])
    /\ UNCHANGED users_auth
    /\ CallUnchanged

----------------------------------------------------------------------------
(* PermissionService *)

NoPermCache == [present |-> FALSE, entries |-> {}]

\* cache.Get("permissions:<u>:<t>"): the entry, unless its TTL has run out
PermCacheGet(userID, tenantID) ==
    {e \in permCache.entries :
        /\ e.Key = "permissions" /\ e.UserID = userID /\ e.TenantID = tenantID
        /\ now < e.Deadline}

\* cache.Delete("permissions:<u>:<t>") and cache.Delete("roles:<u>:<t>")
PermCacheDelete(userID, tenantID) ==
    [permCache EXCEPT
        !.entries = {e \in @ : ~(e.UserID = userID /\ e.TenantID = tenantID)}]

\* cache.Set("permissions:<u>:<t>", permissions, 5 minutes)
PermCacheSet(userID, tenantID, permissions) ==
    [permCache EXCEPT
        !.entries = {e \in @ : ~(/\ e.Key = "permissions" /\ e.UserID = userID
                                  /\ e.TenantID = tenantID)} \cup
                    {[Key |-> "permissions", UserID |-> userID, TenantID |-> tenantID,
                      Value |-> permissions, Deadline |-> now + PermCacheTTL]}]

\* cache.Get("roles:<u>:<t>"): the entry, unless its TTL has run out
RoleCacheGet(userID, tenantID) ==
    {e \in permCache.entries :
        /\ e.Key = "roles" /\ e.UserID = userID /\ e.TenantID = tenantID
        /\ now < e.Deadline}

\* cache.Set("roles:<u>:<t>", roles, 5 minutes)
RoleCacheSet(userID, tenantID, rs) ==
    [permCache EXCEPT
        !.entries = {e \in @ : ~(/\ e.Key = "roles" /\ e.UserID = userID
                                  /\ e.TenantID = tenantID)} \cup
                    {[Key |-> "roles", UserID |-> userID, TenantID |-> tenantID,
                      Value |-> rs, Deadline |-> now + PermCacheTTL]}]

\* auth.ParsePermission on the permission strings of the model: resource.action
ParsePermission(permission) ==
    CASE permission = "user.read" -> [Resource |-> "user", Action |-> "read"]
      [] permission = "user.write" -> [Resource |-> "user", Action |-> "write"]
      [] permission = "user.*" -> [Resource |-> "user", Action |-> "*"]
      [] permission = "user.delete" -> [Resource |-> "user", Action |-> "delete"]
      [] permission = "billing.read" -> [Resource |-> "billing", Action |-> "read"]
      [] permission = "tenant.read" -> [Resource |-> "tenant", Action |-> "read"]
      [] OTHER -> Nil

\* Permission.Matches: same resource, and the held action is * or the same
Matches(userPerm, permObj) ==
    /\ userPerm.Resource = permObj.Resource
    /\ userPerm.Action \in {"*", permObj.Action}

HasPermissionExactOnly(permissions, permission) ==
    \/ "*" \in permissions
    \/ permission \in permissions

HasPermissionNoStar(permissions, permission) ==
    \/ permission \in permissions
    \/ /\ ParsePermission(permission) # Nil
       /\ \E perm \in permissions :
              /\ ParsePermission(perm) # Nil
              /\ Matches(ParsePermission(perm), ParsePermission(permission))

\* The decision of CheckPermission on the permissions GetUserPermissions returned
HasPermission(permissions, permission) ==
    \/ "*" \in permissions
    \/ permission \in permissions
    \/ /\ ParsePermission(permission) # Nil
       /\ \E perm \in permissions :
              /\ ParsePermission(perm) # Nil
              /\ Matches(ParsePermission(perm), ParsePermission(permission))

\* What the database holds for (userID, tenantID): the permissions of the
\* roles of the active membership
ResolvedPermissions(userID, tenantID) ==
    UNION {GetPermissionsForRoles(ut.Roles, tenantID) :
              ut \in {x \in UserTenantRepo_FindByUserAndTenant(userID, tenantID) :
                         x.IsActive}}

\* History: the call is one the removal of a permission covers.  The
\* permission was taken away from (userID, tenantID) and is not held, and the
\* cache was invalidated since, or one cache TTL has passed since.
Covered(userID, tenantID, permission) ==
    /\ ~HasPermission(ResolvedPermissions(userID, tenantID), permission)
    /\ \E l \in hist.lost :
           /\ l[1] = userID /\ l[2] = tenantID /\ l[3] = permission
           /\ \/ <<userID, tenantID>> \in hist.invalidated
              \/ now >= l[4] + PermCacheTTL

NoCall ==
    [pc |-> "idle", op |-> "", user |-> "", tenant |-> "", permission |-> "",
     roles |-> {}, perms |-> {}, allowed |-> FALSE, covered |-> FALSE, epoch |-> 0]

\* The call returns the permissions; CheckPermission decides on them
PermReturn(c, call, permissions) ==
    gp' = [gp EXCEPT ![c] =
              [call EXCEPT !.pc = "returned", !.perms = permissions,
                           !.allowed = /\ call.op = "CheckPermission"
                                       /\ HasPermission(permissions, call.permission)]]

PermUnchanged ==
    UNCHANGED <<users_auth, user_tenants, tenant_login_configs, roles, refresh_tokens,
                redisCache, sessions, now, nextToken, tokenLimit, changes, failStreak,
                vt, calls, gw, hist, last>>

\* GetUserPermissions, step 1: the call starts and reads the cache; a cached
\* list that is not empty is returned.
GetUserPermissions_Cache(c, op, userID, tenantID, permission) ==
    /\ gp[c].pc \in {"idle", "returned"}
    /\ LET call == [NoCall EXCEPT !.op = op, !.user = userID, !.tenant = tenantID,
                                  !.permission = permission,
                                  !.covered = Covered(userID, tenantID, permission),
                                  !.epoch = changes]
       IN  \E e \in FindOne(IF permCache.present
                              THEN PermCacheGet(userID, tenantID) ELSE {}) :
               IF e # Nil /\ e.Value # {}
                   THEN PermReturn(c, call, e.Value)
                   ELSE gp' = [gp EXCEPT ![c] = [call EXCEPT !.pc = "membership"]]
    /\ UNCHANGED permCache
    /\ PermUnchanged

\* Step 2: the membership is read; without an active membership the call
\* returns no permissions.
GetUserPermissions_Membership(c) ==
    /\ gp[c].pc = "membership"
    /\ \E userTenant \in FindOne(UserTenantRepo_FindByUserAndTenant(gp[c].user,
                                                                    gp[c].tenant)) :
           IF userTenant = Nil \/ ~userTenant.IsActive
               THEN PermReturn(c, gp[c], {})
               ELSE gp' = [gp EXCEPT ![c].pc = "roles", ![c].roles = userTenant.Roles]
    /\ UNCHANGED permCache
    /\ PermUnchanged

\* Step 3: the permissions of the roles are read
GetUserPermissions_Roles(c) ==
    /\ gp[c].pc = "roles"
    /\ gp' = [gp EXCEPT ![c].pc = "set",
                        ![c].perms = GetPermissionsForRoles(gp[c].roles, gp[c].tenant)]
    /\ UNCHANGED permCache
    /\ PermUnchanged

\* Step 4: the permissions are written to the cache and returned
GetUserPermissions_Set(c) ==
    /\ gp[c].pc = "set"
    /\ permCache' = IF permCache.present
                      THEN PermCacheSet(gp[c].user, gp[c].tenant, gp[c].perms)
                      ELSE permCache
    /\ PermReturn(c, gp[c], gp[c].perms)
    /\ PermUnchanged

\* PermissionService.InvalidateUserPermissionCache
InvalidateUserPermissionCache(userID, tenantID) ==
    /\ permCache' = IF permCache.present
                      THEN PermCacheDelete(userID, tenantID) ELSE permCache
    /\ hist' = [hist EXCEPT !.invalidated = @ \cup {<<userID, tenantID>>}]
    /\ UNCHANGED <<users_auth, user_tenants, tenant_login_configs, roles, refresh_tokens,
                   redisCache, sessions, now, nextToken, tokenLimit, changes, failStreak,
                   vt, gp, calls, gw, last>>

\* UserTenantRepository.UpdateRoles on an existing membership, as
\* AddUserToTenant calls it.  Nothing touches the permission cache.
UpdateRoles(userID, tenantID, rs) ==
    /\ changes < MaxChanges
    /\ UserTenantRepo_UpdateRoles(userID, tenantID, rs) # user_tenants
    /\ user_tenants' = UserTenantRepo_UpdateRoles(userID, tenantID, rs)
    /\ changes' = changes + 1
    /\ hist' = [hist EXCEPT
           !.invalidated = @ \ {<<userID, tenantID>>},
           !.lost = {l \in @ : ~(l[1] = userID /\ l[2] = tenantID)} \cup
                    {<<userID, tenantID, perm, now>> :
                        perm \in ResolvedPermissions(userID, tenantID) \
                                 GetPermissionsForRoles(rs, tenantID)}]
    /\ last' = NoOp
    /\ UNCHANGED <<users_auth, tenant_login_configs, roles, refresh_tokens, redisCache,
                   sessions, permCache, now, nextToken, tokenLimit, failStreak, vt, gp, calls, gw>>

\* A resolver that does not look at the cache
GetUserPermissionsNoCache(userID, tenantID) ==
    {ResolvedPermissions(userID, tenantID)}

\* What GetUserPermissions returns when it runs without interruption: the
\* cached list when there is one that is not empty, else what the database
\* holds
GetUserPermissions(userID, tenantID) ==
    LET cached == IF permCache.present THEN PermCacheGet(userID, tenantID) ELSE {}
    IN  IF \E e \in cached : e.Value # {}
            THEN {e.Value : e \in cached}
            ELSE {ResolvedPermissions(userID, tenantID)}

\* A call that stores what it returns after every miss, also the empty list
\* of a user without an active membership
GetUserPermissionsCacheEveryMiss(userID, tenantID) ==
    LET cached == IF permCache.present THEN PermCacheGet(userID, tenantID) ELSE {}
    IN  IF permCache.present /\ ~(\E e \in cached : e.Value # {})
            THEN PermCacheSet(userID, tenantID, ResolvedPermissions(userID, tenantID))
            ELSE permCache

\* The cache after such a call: the list is stored when it was read from the
\* database for an active membership
GetUserPermissionsCache(userID, tenantID) ==
    LET cached == IF permCache.present THEN PermCacheGet(userID, tenantID) ELSE {}
    IN  IF /\ permCache.present
           /\ ~(\E e \in cached : e.Value # {})
           /\ \E ut \in UserTenantRepo_FindByUserAndTenant(userID, tenantID) :
                  ut.IsActive
            THEN PermCacheSet(userID, tenantID, ResolvedPermissions(userID, tenantID))
            ELSE permCache

\* The stores such a call reads: the cache when there is one, the membership
\* after a miss, the roles when the membership is active
GetUserPermissionsReads(userID, tenantID) ==
    LET cached == IF permCache.present THEN PermCacheGet(userID, tenantID) ELSE {}
    IN  (IF permCache.present THEN {"cache"} ELSE {}) \cup
        (IF \E e \in cached : e.Value # {} THEN {}
         ELSE IF \E ut \in UserTenantRepo_FindByUserAndTenant(userID, tenantID) :
                     ut.IsActive
             THEN {"user_tenants", "roles"}
         ELSE {"user_tenants"})

\* PermissionService.GetUserPermissions as one call
GetUserPermissionsCall(userID, tenantID) ==
    /\ \E permissions \in GetUserPermissions(userID, tenantID) :
           last' = Op("GetUserPermissions", "", "", tenantID, NoToken,
                      [kind |-> "ok", user |-> userID, perms |-> permissions,
                       reads |-> GetUserPermissionsReads(userID, tenantID)], 0)
    /\ permCache' = GetUserPermissionsCache(userID, tenantID)
    /\ UNCHANGED <<users_auth, user_tenants, tenant_login_configs, roles, refresh_tokens,
                   redisCache, sessions, now, nextToken, tokenLimit, changes, failStreak,
                   vt, gp, calls, gw, hist>>

\* What GetUserRoles returns: the cached roles when there are some, else
\* the roles of the active membership
GetUserRoles(userID, tenantID) ==
    LET cached == IF permCache.present THEN RoleCacheGet(userID, tenantID) ELSE {}
    IN  IF \E e \in cached : e.Value # {}
            THEN {e.Value : e \in cached}
            ELSE {UNION {ut.Roles :
                     ut \in {x \in UserTenantRepo_FindByUserAndTenant(userID, tenantID) :
                                x.IsActive}}}

\* The cache after GetUserRoles: the roles of an active membership are stored
\* after a miss
GetUserRolesCache(userID, tenantID) ==
    LET cached == IF permCache.present THEN RoleCacheGet(userID, tenantID) ELSE {}
        active == {ut \in UserTenantRepo_FindByUserAndTenant(userID, tenantID) :
                      ut.IsActive}
    IN  IF permCache.present /\ ~(\E e \in cached : e.Value # {}) /\ active # {}
            THEN RoleCacheSet(userID, tenantID, UNION {ut.Roles : ut \in active})
            ELSE permCache

\* PermissionService.GetUserRoles as one call
GetUserRolesCall(userID, tenantID) ==
    /\ \E rs \in GetUserRoles(userID, tenantID) :
           last' = Op("GetUserRoles", "", "", tenantID, NoToken,
                      [kind |-> "ok", user |-> userID, roles |-> rs], 0)
    /\ permCache' = GetUserRolesCache(userID, tenantID)
    /\ UNCHANGED <<users_auth, user_tenants, tenant_login_configs, roles, refresh_tokens,
                   redisCache, sessions, now, nextToken, tokenLimit, changes, failStreak,
                   vt, gp, calls, gw, hist>>

\* PermissionService.InvalidateTenantPermissionCache: the request is logged,
\* no key is deleted
InvalidateTenantPermissionCache(tenantID) ==
    /\ last' = Op("InvalidateTenantPermissionCache", "", "", tenantID, NoToken,
                  NoResult, 0)
    /\ UNCHANGED <<users_auth, user_tenants, tenant_login_configs, roles, refresh_tokens,
                   redisCache, sessions, permCache, now, nextToken, tokenLimit, changes,
                   failStreak, vt, gp, calls, gw, hist>>

\* PermissionService.CheckPermission as one call
CheckPermission(userID, tenantID, permission) ==
    /\ \E permissions \in GetUserPermissions(userID, tenantID) :
           last' = Op("CheckPermission", "", "", tenantID, NoToken,
                      [kind |-> "ok", user |-> userID, permission |-> permission,
                       perms |-> permissions,
                       allowed |-> HasPermission(permissions, permission)], 0)
    /\ permCache' = GetUserPermissionsCache(userID, tenantID)
    /\ UNCHANGED <<users_auth, user_tenants, tenant_login_configs, roles, refresh_tokens,
                   redisCache, sessions, now, nextToken, tokenLimit, changes, failStreak,
                   vt, gp, calls, gw, hist>>

\* PermissionSet.Has on the set auth.NewPermissionSet builds from the user's
\* permissions: the matching rule of the permission syntax
PermissionSetHas(permissions, required) ==
    \/ "*" \in permissions
    \/ required \in permissions
    \/ /\ ParsePermission(required) # Nil
       /\ \E perm \in permissions :
              /\ ParsePermission(perm) # Nil
              /\ Matches(ParsePermission(perm), ParsePermission(required))

\* A loop that stops at the first permission that is missing
MissingPermissionsFirst(permissions, requiredPermissions) ==
    LET all == SelectSeq(requiredPermissions,
                         LAMBDA required : ~PermissionSetHas(permissions, required))
    IN  IF all = <<>> THEN <<>> ELSE <<Head(all)>>

\* The loop of CheckPermissions: the required permissions the set does not
\* have, appended in the order of the request
MissingPermissions(permissions, requiredPermissions) ==
    LET RECURSIVE loop(_, _)
        loop(i, missingPermissions) ==
            IF i > Len(requiredPermissions) THEN missingPermissions
            ELSE IF ~PermissionSetHas(permissions, requiredPermissions[i])
                THEN loop(i + 1, Append(missingPermissions, requiredPermissions[i]))
            ELSE loop(i + 1, missingPermissions)
    IN  loop(1, <<>>)

\* PermissionService.CheckPermissions as one call
CheckPermissions(userID, tenantID, requiredPermissions) ==
    /\ \E permissions \in GetUserPermissions(userID, tenantID) :
           LET missingPermissions == MissingPermissions(permissions, requiredPermissions)
           IN  last' = Op("CheckPermissions", "", "", tenantID, NoToken,
                          [kind |-> "ok", user |-> userID,
                           required |-> requiredPermissions, perms |-> permissions,
                           missing |-> missingPermissions,
                           hasAll |-> Len(missingPermissions) = 0], 0)
    /\ permCache' = GetUserPermissionsCache(userID, tenantID)
    /\ UNCHANGED <<users_auth, user_tenants, tenant_login_configs, roles, refresh_tokens,
                   redisCache, sessions, now, nextToken, tokenLimit, changes, failStreak,
                   vt, gp, calls, gw, hist>>

----------------------------------------------------------------------------
(* The gateway: the /api route of cmd/gateway/main.go and AuthMiddleware.   *)
(* path is the part of the request path after /api; authHeader is the       *)
(* Authorization header split at its spaces, <<>> when the header is absent. *)

GatewayPaths ==
    {"/auth-service/auth/login", "/auth-service/auth/register", "/auth-service/users",
     "/auth-service/auth/login-history",
     "/file-service/files/auth/register/export"}

AuthHeaders ==
    {<<>>, <<"Bearer", "tok1">>, <<"bearer", "tok2">>, <<"Basic", "tok1">>,
     <<"Bearer">>, <<"Bearer", "tok1", "x">>, <<"Bearer", "">>}

\* strings.Contains(path, sub) on the paths of the model
Contains(path, sub) ==
    CASE sub = "/auth/login" ->
             path \in {"/auth-service/auth/login", "/auth-service/auth/login-history"}
      [] sub = "/auth/register" ->
             path \in {"/auth-service/auth/register",
                       "/file-service/files/auth/register/export"}
      [] OTHER -> FALSE

\* strings.ToLower on the schemes of the model
ToLower(str) == IF str \in {"Bearer", "bearer"} THEN "bearer" ELSE "basic"

\* extractToken
extractToken(authHeader) ==
    IF authHeader = <<>> THEN ""
    ELSE IF Len(authHeader) # 2 \/ ToLower(authHeader[1]) # "bearer" THEN ""
    ELSE authHeader[2]

\* The answer of authClient.ValidateToken: a ValidateTokenResponse, or an error
ValidateTokenResponse(valid, userID, tenantID) ==
    [err |-> FALSE, Valid |-> valid, UserID |-> userID, TenantID |-> tenantID]

ValidateTokenError == [err |-> TRUE, Valid |-> FALSE, UserID |-> "", TenantID |-> ""]

NoClaims == ValidateTokenResponse(FALSE, "", "")

\* jwtManager.GenerateToken(resp.UserID, resp.TenantID, ...): the internal
\* token, a signed token with the claims of the validation response
GenerateToken(resp) == <<"jwt", resp.UserID, resp.TenantID>>

\* cache.Get("token:<token>:<tenantID>"): the entry, unless its time has run out
GatewayCacheGet(token, tenantID) ==
    {e \in gw.cache : e.Token = token /\ e.TenantID = tenantID /\ now < e.Deadline}

\* cache.Set("token:<token>:<tenantID>", resp, 5 minutes)
GatewayCacheSet(token, tenantID, resp) ==
    {e \in gw.cache : ~(e.Token = token /\ e.TenantID = tenantID)} \cup
        {[Token |-> token, TenantID |-> tenantID, Deadline |-> now + GatewayCacheTTL,
          Resp |-> resp]}

\* What the gateway did with a request.  tenantID and authorization are the
\* X-Tenant-ID and Authorization headers of the forwarded request, claims the
\* validation response they were made from.
GatewayResponse(path, authHeader, status, forwarded, validated, claims, tenantID, authorization) ==
    [path |-> path, authHeader |-> authHeader, status |-> status,
     forwarded |-> forwarded, validated |-> validated, claims |-> claims,
     tenantID |-> tenantID, authorization |-> authorization]

GatewayRejected(path, authHeader, status) ==
    GatewayResponse(path, authHeader, status, FALSE, "none", NoClaims, "", <<>>)

\* A proxy that sets X-Tenant-ID and leaves the Authorization header of the
\* client in place
ProxyServeHTTPKeepAuthorization(path, authHeader, validated, claims, tenantID, internalToken) ==
    GatewayResponse(path, authHeader, 200, TRUE, validated, claims, tenantID,
                    authHeader)

\* Proxy.ServeHTTP(w, r, tenantID, internalToken) for a registered service:
\* both headers of the request are overwritten before it is forwarded
ProxyServeHTTP(path, authHeader, validated, claims, tenantID, internalToken) ==
    GatewayResponse(path, authHeader, 200, TRUE, validated, claims, tenantID,
                    <<"Bearer", internalToken>>)

\* injectHeaders and the rest of the route: tenant_id and internal_token are
\* set from the validation response and handed to the proxy.  signFails: the
\* internal token cannot be generated, nothing is set on the context and the
\* type assertion of the route panics (gin.Recovery answers 500).
\* A route that reads tenant_id and internal_token with their zero values
\* when they were not set, and hands the request to the proxy all the same
injectHeadersForwardUnset(path, authHeader, validated, resp, signFails) ==
    IF signFails
        THEN ProxyServeHTTP(path, authHeader, validated, resp, "", "")
        ELSE ProxyServeHTTP(path, authHeader, validated, resp, resp.TenantID,
                            GenerateToken(resp))

injectHeaders(path, authHeader, validated, resp, signFails) ==
    IF signFails
        THEN GatewayResponse(path, authHeader, 500, FALSE, validated, resp, "", <<>>)
        ELSE ProxyServeHTTP(path, authHeader, validated, resp, resp.TenantID,
                            GenerateToken(resp))

\* What AuthMiddleware and the rest of the route do with a request that is
\* not passed through as login or register.  validation is what
\* authClient.ValidateToken answers; with no AuthClient the call panics and
\* gin.Recovery answers 500.
AuthMiddleware(path, authHeader, tenantID, validation, signFails) ==
    LET token == extractToken(authHeader)
    IN  IF token = ""
            THEN GatewayRejected(path, authHeader, 401)
        ELSE IF GatewayCacheGet(token, tenantID) # {}
            THEN LET val == CHOOSE e \in GatewayCacheGet(token, tenantID) : TRUE
                 IN  injectHeaders(path, authHeader, "hit", val.Resp, signFails)
        ELSE IF ~gw.authClient
            THEN GatewayRejected(path, authHeader, 500)
        ELSE IF validation.err \/ ~validation.Valid
            THEN GatewayRejected(path, authHeader, 401)
        ELSE injectHeaders(path, authHeader, "call", validation, signFails)

\* The request reaches authClient.ValidateToken
CallsAuthService(authHeader, tenantID) ==
    /\ extractToken(authHeader) # ""
    /\ GatewayCacheGet(extractToken(authHeader), tenantID) = {}
    /\ gw.authClient

\* The cache after the request: a successful validation call stores its answer
AuthMiddlewareCache(authHeader, tenantID, validation) ==
    IF /\ CallsAuthService(authHeader, tenantID)
       /\ ~validation.err /\ validation.Valid
        THEN GatewayCacheSet(extractToken(authHeader), tenantID, validation)
        ELSE gw.cache

\* The answer to a request to /api/<path> and the gateway cache after it
GatewayHandle(path, authHeader, tenantID, validation, signFails) ==
    IF Contains(path, "/auth/login") \/ Contains(path, "/auth/register")
        THEN /\ last' = Op("Gateway", "", "", tenantID, NoToken,
                           ProxyServeHTTP(path, authHeader, "none", NoClaims, "", ""), 0)
             /\ UNCHANGED gw
        ELSE /\ last' = Op("Gateway", "", "", tenantID, NoToken,
                           AuthMiddleware(path, authHeader, tenantID, validation,
                                          signFails), 0)
             /\ gw' = [gw EXCEPT !.cache = AuthMiddlewareCache(authHeader, tenantID,
                                                               validation)]

\* A request to /api/<path>, the auth service answering validation
GatewayRequest(path, authHeader, tenantID, validation, signFails) ==
    /\ GatewayHandle(path, authHeader, tenantID, validation, signFails)
    /\ UNCHANGED <<users_auth, user_tenants, tenant_login_configs, roles, refresh_tokens,
                   redisCache, sessions, permCache, now, nextToken, tokenLimit, changes,
                   failStreak, vt, gp, calls, hist>>

\* Strings of the proxy are sequences of pieces, "/" being a piece of its own:
\* "/api/auth-service/users" is <<"/", "api", "/", "auth-service", "/", "users">>

\* strings.HasPrefix
HasPrefix(str, prefix) ==
    Len(str) >= Len(prefix) /\ SubSeq(str, 1, Len(prefix)) = prefix

\* strings.TrimPrefix
TrimPrefix(str, prefix) ==
    IF HasPrefix(str, prefix) THEN SubSeq(str, Len(prefix) + 1, Len(str)) ELSE str

\* strings.SplitN(str, "/", 2): the part before the first "/" and the part
\* after it, or str alone when it holds no "/"
SplitN2(str) ==
    IF \E i \in 1..Len(str) : str[i] = "/"
        THEN LET i == CHOOSE i \in 1..Len(str) :
                          str[i] = "/" /\ \A j \in 1..(i - 1) : str[j] # "/"
             IN  <<SubSeq(str, 1, i - 1), SubSeq(str, i + 1, Len(str))>>
        ELSE <<str>>

ProxyResult(status, service, path) ==
    [status |-> status, service |-> service, path |-> path]

\* "Service not found"
ServiceNotFound == ProxyResult(404, <<>>, <<>>)

\* The /api/ and /page/ rules: the named service when it is registered, with
\* the path rewritten to what follows the service name
ProxyRewrite(parts, serviceName, services) ==
    IF serviceName \in services
        THEN ProxyResult(200, serviceName,
                         IF Len(parts) > 1 THEN <<"/">> \o parts[2] ELSE <<"/">>)
        ELSE ServiceNotFound

\* Routing with a fall-through to the slug service for an /api/ or /page/
\* path whose service is not registered
ProxyTargetFallThrough(path, services) ==
    LET named ==
            IF HasPrefix(path, <<"/", "api", "/">>)
                THEN LET parts == SplitN2(TrimPrefix(path, <<"/", "api", "/">>))
                     IN  ProxyRewrite(parts, parts[1], services)
            ELSE IF HasPrefix(path, <<"/", "page", "/">>)
                THEN LET parts == SplitN2(TrimPrefix(path, <<"/", "page", "/">>))
                     IN  ProxyRewrite(parts, parts[1] \o <<"-frontend">>, services)
            ELSE IF HasPrefix(path, <<"/", "upload", "/">>)
                       /\ <<"file-service">> \in services
                THEN ProxyResult(200, <<"file-service">>,
                                 TrimPrefix(path, <<"/", "upload">>))
            ELSE ServiceNotFound
    IN  IF named # ServiceNotFound THEN named
        ELSE IF <<"slug-service">> \in services
            THEN ProxyResult(200, <<"slug-service">>, path)
        ELSE ServiceNotFound

\* Proxy.ServeHTTP: the service a request is sent to and the path it is sent
\* with, or 404.  services: the names registered with AddService.
ProxyTarget(path, services) ==
    IF HasPrefix(path, <<"/", "api", "/">>)
        THEN LET parts == SplitN2(TrimPrefix(path, <<"/", "api", "/">>))
             IN  ProxyRewrite(parts, parts[1], services)
    ELSE IF HasPrefix(path, <<"/", "page", "/">>)
        THEN LET parts == SplitN2(TrimPrefix(path, <<"/", "page", "/">>))
             IN  ProxyRewrite(parts, parts[1] \o <<"-frontend">>, services)
    ELSE IF HasPrefix(path, <<"/", "upload", "/">>)
        THEN IF <<"file-service">> \in services
                 THEN ProxyResult(200, <<"file-service">>,
                                  TrimPrefix(path, <<"/", "upload">>))
                 ELSE ServiceNotFound
    ELSE IF <<"slug-service">> \in services
        THEN ProxyResult(200, <<"slug-service">>, path)
    ELSE ServiceNotFound

\* A request handed to the proxy of a gateway with the services registered
ProxyRequest(path, services) ==
    /\ last' = Op("Proxy", "", "", "", NoToken,
                  [path |-> path, services |-> services,
                   target |-> ProxyTarget(path, services)], 0)
    /\ UNCHANGED <<users_auth, user_tenants, tenant_login_configs, roles, refresh_tokens,
                   redisCache, sessions, permCache, now, nextToken, tokenLimit, changes,
                   failStreak, vt, gp, calls, gw, hist>>

\* The access token a token string of a request stands for
GatewayToken(token) ==
    CASE token = "tok1" -> AccessToken(1)
      [] token = "tok2" -> AccessToken(2)
      [] OTHER -> UnknownToken

\* MultiTenantAuthServer.ValidateToken: the answer of the auth service to the
\* gateway, made from the result of MultiTenantAuthService.VerifyToken
ValidateToken(result) ==
    IF result.kind = "ok" THEN ValidateTokenResponse(TRUE, result.user, result.tenant)
    ELSE ValidateTokenResponse(FALSE, "", "")

\* A request to /api/<path> at a gateway whose AuthClient calls the auth
\* service of this model: where the middleware calls ValidateToken, the
\* answer is the one VerifyToken gives for the token in the current state
\* (an expired session is deleted by the call), or a transport error.
GatewayValidate(path, authHeader, tenantID, signFails, transportFails) ==
    LET token == GatewayToken(extractToken(authHeader))
        called == /\ ~(Contains(path, "/auth/login") \/ Contains(path, "/auth/register"))
                  /\ CallsAuthService(authHeader, tenantID)
                  /\ ~transportFails
    IN  /\ \E result \in (IF called THEN VerifyOutcomes(token) ELSE {NoResult}) :
               GatewayHandle(path, authHeader, tenantID,
                             IF transportFails THEN ValidateTokenError
                             ELSE ValidateToken(result), signFails)
        /\ sessions' = IF called THEN VerifySessions(token) ELSE sessions
        /\ UNCHANGED <<users_auth, user_tenants, tenant_login_configs, roles,
                       refresh_tokens, redisCache, permCache, now, nextToken, tokenLimit,
                       changes, failStreak, vt, gp, calls, hist>>

\* Time passes at the gateway
GatewayTick ==
    /\ now < MaxTime
    /\ now' = now + 1
    /\ last' = NoOp
    /\ UNCHANGED <<users_auth, user_tenants, tenant_login_configs, roles, refresh_tokens,
                   redisCache, sessions, permCache, nextToken, tokenLimit, changes,
                   failStreak, vt, gp, calls, gw, hist>>

----------------------------------------------------------------------------
(* The stores the scenarios start from: two registered users, their        *)
(* memberships, one tenant with a login configuration of its own, and the   *)
(* roles.                                                                    *)

User(id, email, username, phone, docNumber, password) ==
    [ID |-> id, Email |-> email, Username |-> username, Phone |-> phone,
     DocNumber |-> docNumber, PasswordHash |-> HashPassword(password),
     IsActive |-> TRUE, LastLoginAt |-> {}]

SeedUsers ==
    {User("u1", "a@b.c", "alice", "", "", "pw"),
     User("u2", "", "bob", "555", "", "pw")}

SeedUserTenants ==
    {[UserID |-> "u1", TenantID |-> EmptyTenantID, Roles |-> {"user"}, IsActive |-> TRUE],
     [UserID |-> "u1", TenantID |-> "T1", Roles |-> {"admin"}, IsActive |-> TRUE],
     [UserID |-> "u2", TenantID |-> "T1", Roles |-> {"user"}, IsActive |-> TRUE],
     [UserID |-> "u2", TenantID |-> EmptyTenantID, Roles |-> {"user"}, IsActive |-> FALSE]}

LoginConfig(tenantID, allowRegistration, requireSpec) ==
    [TenantID |-> tenantID, AllowedIdentifiers |-> {IdentifierTypeUsername},
     AllowRegistration |-> allowRegistration,
     PasswordMinLength |-> DefaultPasswordMinLength,
     PasswordRequireUpper |-> FALSE, PasswordRequireLower |-> TRUE,
     PasswordRequireDigit |-> FALSE, PasswordRequireSpec |-> requireSpec,
     SessionTimeout |-> MinutesPerDay,
     MaxLoginAttempts |-> 3]

SeedLoginConfigs == {LoginConfig("T1", TRUE, FALSE)}

SeedRoles ==
    {[Name |-> "admin", HasTenant |-> FALSE, TenantID |-> "",
      Permissions |-> {"user.read", "user.write"}],
     [Name |-> "user", HasTenant |-> FALSE, TenantID |-> "",
      Permissions |-> {"user.read"}],
     [Name |-> "user", HasTenant |-> TRUE, TenantID |-> "T1",
      Permissions |-> {"billing.read"}],
     [Name |-> "super_admin", HasTenant |-> FALSE, TenantID |-> "",
      Permissions |-> {"*"}],
     [Name |-> "user_admin", HasTenant |-> FALSE, TenantID |-> "",
      Permissions |-> {"user.*"}],
     [Name |-> "viewer", HasTenant |-> FALSE, TenantID |-> "",
      Permissions |-> {"user.read", "tenant.read"}]}

NoVerify == [pc |-> "idle", token |-> NoToken, session |-> Nil, user |-> Nil,
             afterLogout |-> FALSE, overlapped |-> FALSE, result |-> NoResult]

InitStores ==
    /\ users_auth = SeedUsers
    /\ user_tenants = SeedUserTenants
    /\ tenant_login_configs = SeedLoginConfigs
    /\ roles = SeedRoles
    /\ refresh_tokens = {}
    /\ sessions = {}
    /\ now = 0
    /\ nextToken = 1
    /\ changes = 0
    /\ last = NoOp

Init ==
    /\ InitStores
    /\ redisCache \in BOOLEAN
    /\ tokenLimit = MaxTokens
    /\ failStreak = NoStreak
    /\ vt = NoVerify
    /\ gp = <<>>
    /\ calls = <<>>
    /\ gw = NoGateway
    /\ permCache = NoPermCache
    /\ hist = NoHistory

\* The same stores, for the scenarios that need few token pairs
InitFew ==
    /\ InitStores
    /\ redisCache \in BOOLEAN
    /\ tokenLimit = MaxIssued
    /\ failStreak = NoStreak
    /\ vt = NoVerify
    /\ gp = <<>>
    /\ calls = <<>>
    /\ gw = NoGateway
    /\ permCache = NoPermCache
    /\ hist = NoHistory

\* Token strings a client can present: those issued so far and one that was
\* never issued.
IssuedAccessTokens == {AccessToken(k) : k \in 1..(nextToken - 1)}

IssuedTokens ==
    IssuedAccessTokens \cup {RefreshTokenStr(k) : k \in 1..(nextToken - 1)}

TokenInputs == IssuedTokens \cup {UnknownToken}

AccessInputs == IssuedAccessTokens \cup {UnknownToken}

RefreshInputs == {RefreshTokenStr(k) : k \in 1..(nextToken - 1)} \cup {UnknownToken}

Changes ==
    \/ \E userID \in UserIDs, isActive \in BOOLEAN : UpdateUser(userID, isActive)
    \/ \E userID \in UserIDs, tenantID \in TenantIDs, rs \in {{"user"}, {"admin"}} :
           AddUserToTenant(userID, tenantID, rs)
    \/ \E userID \in UserIDs, tenantID \in TenantIDs :
           RemoveUserFromTenant(userID, tenantID)
    \/ \E userID \in UserIDs, tenantID \in TenantIDs :
           ActivateMembership(userID, tenantID)
    \/ \E userID \in UserIDs, tenantID \in TenantIDs :
           DeleteMembership(userID, tenantID)

\* Sessions: logins that present a user's identifier and password, and the
\* calls that use the tokens they return.
Next ==
    \/ \E identifier \in {"alice", "bob"}, tenantID \in TenantIDs :
           Login(identifier, "pw", tenantID)
    \/ \E token \in TokenInputs : VerifyToken(token)
    \/ \E token \in TokenInputs : RefreshToken(token)
    \/ \E token \in IssuedAccessTokens : Logout(token)
    \/ Changes
    \/ Tick

Spec == Init /\ [][Next]_vars

\* Logins: every identifier, password and tenant, under changing users and
\* memberships.
NextLogin ==
    \/ \E identifier \in Identifiers, password \in Passwords, tenantID \in TenantIDs :
           Login(identifier, password, tenantID)
    \/ Changes

SpecLogin == InitFew /\ [][NextLogin]_vars

\* Logins whose token generation can fail at each of its steps
NextLoginFault ==
    \/ \E identifier \in Identifiers, password \in Passwords, tenantID \in TenantIDs :
           Login(identifier, password, tenantID)
    \/ \E identifier \in Identifiers, password \in Passwords, tenantID \in TenantIDs,
          fault \in TokenFaults : LoginFault(identifier, password, tenantID, fault)
    \/ Changes

SpecLoginFault == InitFew /\ [][NextLoginFault]_vars

\* Token issuance by Login and by RefreshToken, with and without a failing
\* step, and the refreshes that present the refresh tokens it returned
InitIssue ==
    /\ InitStores
    /\ redisCache \in BOOLEAN
    /\ tokenLimit = MaxTokens
    /\ failStreak = NoStreak
    /\ vt = NoVerify
    /\ gp = <<>>
    /\ calls = <<>>
    /\ gw = NoGateway
    /\ permCache = NoPermCache
    /\ hist = NoHistory

NextIssue ==
    \/ \E identifier \in {"alice", "bob"} : Login(identifier, "pw", "T1")
    \/ \E identifier \in {"alice", "bob"}, fault \in TokenFaults :
           LoginFault(identifier, "pw", "T1", fault)
    \/ \E token \in RefreshInputs : RefreshToken(token)
    \/ \E token \in RefreshInputs, fault \in TokenFaults : RefreshTokenFault(token, fault)

SpecIssue == InitIssue /\ [][NextIssue]_vars

\* Token issuance under tenant login configurations with different session
\* timeouts (TenantLoginConfig.SessionTimeout, in minutes)
SessionTimeouts == {MinutesPerDay, 2 * MinutesPerDay}

InitTimeout ==
    /\ users_auth = SeedUsers
    /\ user_tenants = SeedUserTenants
    /\ \E m \in SessionTimeouts :
           tenant_login_configs =
               {[LoginConfig("T1", TRUE, FALSE) EXCEPT !.SessionTimeout = m]}
    /\ roles = SeedRoles
    /\ refresh_tokens = {}
    /\ sessions = {}
    /\ now = 0
    /\ nextToken = 1
    /\ changes = 0
    /\ last = NoOp
    /\ redisCache = TRUE
    /\ tokenLimit = MaxTokens
    /\ failStreak = NoStreak
    /\ vt = NoVerify
    /\ gp = <<>>
    /\ calls = <<>>
    /\ gw = NoGateway
    /\ permCache = NoPermCache
    /\ hist = NoHistory

NextTimeout ==
    \/ \E identifier \in {"alice", "bob"}, tenantID \in TenantIDs :
           Login(identifier, "pw", tenantID)
    \/ \E token \in RefreshInputs : RefreshToken(token)
    \/ \E token \in IssuedAccessTokens : Logout(token)
    \/ Tick

SpecTimeout == InitTimeout /\ [][NextTimeout]_vars

\* Token issuance by calls that can fall into the same second of the clock
NextSameSecond ==
    \/ \E identifier \in {"alice", "bob"}, tenantID \in TenantIDs :
           Login(identifier, "pw", tenantID)
    \/ \E identifier \in {"alice", "bob"}, tenantID \in TenantIDs :
           LoginSameSecond(identifier, "pw", tenantID)
    \/ \E token \in RefreshInputs : RefreshToken(token)
    \/ \E token \in RefreshInputs : RefreshTokenSameSecond(token)
    \/ Tick

SpecSameSecond == InitIssue /\ [][NextSameSecond]_vars

\* Several sessions of one user and of different users, created, verified
\* and logged out
NextSessions ==
    \/ \E identifier \in {"alice", "bob"} : Login(identifier, "pw", "T1")
    \/ \E token \in AccessInputs : VerifyToken(token)
    \/ \E token \in IssuedAccessTokens : Logout(token)
    \/ Tick

SpecSessions == InitIssue /\ [][NextSessions]_vars

\* Password validation: passwords around the minimum length, with and
\* without each character class, under every password policy of a tenant
PolicyPasswords ==
    {"Passw0rd", "password", "Passw0r!", "PASSW0R!", "passw0r!", "Passwor!",
     "12345678", "Passw0r", "Pa5sw!r", "Passw0rd!", "Pw1"}

PolicyConfigs ==
    {[GetDefaultConfig("T1") EXCEPT !.PasswordMinLength = n,
                                    !.PasswordRequireUpper = upper,
                                    !.PasswordRequireLower = lower,
                                    !.PasswordRequireDigit = digit,
                                    !.PasswordRequireSpec = special] :
        n \in {4, 7, 8, 9}, upper \in BOOLEAN, lower \in BOOLEAN,
        digit \in BOOLEAN, special \in BOOLEAN}

NextPolicy ==
    \E password \in PolicyPasswords, config \in PolicyConfigs :
        ValidatePasswordCall(password, config)

SpecPolicy == InitIssue /\ [][NextPolicy]_vars

\* Logins, refreshes and validations while accounts are deactivated and
\* activated again
NextDeactivate ==
    \/ \E identifier \in {"alice", "bob"}, tenantID \in TenantIDs :
           Login(identifier, "pw", tenantID)
    \/ \E token \in RefreshInputs : RefreshToken(token)
    \/ \E token \in AccessInputs : VerifyToken(token)
    \/ \E userID \in UserIDs, isActive \in BOOLEAN : UpdateUser(userID, isActive)

SpecDeactivate == InitIssue /\ [][NextDeactivate]_vars

----------------------------------------------------------------------------
(* AuthService.ValidateToken: the validation behind the ValidateToken call  *)
(* of AuthServiceServer.  It reads the session stored under the string and, *)
(* when there is none, takes the string for a signed token.                 *)

NotFound(msg) == Err("not_found", msg)

\* jwt.Manager.ValidateToken: the claims of a string the manager signed, when
\* the signature is good and the token has not expired.  Refresh tokens and
\* the internal tokens of the gateway are made by jwt.Manager.GenerateToken
\* with the secret of the configuration (cfg.JWT.Secret) and carry the user
\* and tenant they were signed for; generateTokens stores the same user and
\* tenant in the row of the refresh token.  cfg.JWT.Expiration is shorter
\* than one unit of the clock: a refresh token is good in the unit it was
\* signed in, and an internal token presented is one of the current unit.
\* Access tokens and unknown strings are not signed tokens.
JwtClaims(token) ==
    IF token[1] = "refresh"
        THEN {[UserID |-> r.UserID, TenantID |-> r.TenantID] :
                 r \in {x \in refresh_tokens : /\ x.Token = token
                                                /\ x.ExpiresAt - RefreshTTL = now}}
    ELSE IF token[1] = "jwt"
        THEN {[UserID |-> token[2], TenantID |-> token[3]]}
    ELSE {}

\* user.Tenants of a row of users_auth: MultiTenantAuthService.Register leaves
\* the field unset, and memberships are rows of user_tenants
Tenants(user) == {}

\* The answer for the user and tenant found: the user is read, and a tenant
\* that is not empty has to be one of user.Tenants
ValidateTokenChecks(userID, tenantID, user) ==
    IF userID = "" THEN Unauthorized("Invalid or expired token")
    ELSE IF user = Nil THEN NotFound("User not found")
    ELSE IF tenantID # "" /\ tenantID \notin Tenants(user)
        THEN Forbidden("User does not belong to this tenant")
    ELSE [kind |-> "ok", msg |-> "", user |-> userID, tenant |-> tenantID]

\* The results ValidateToken(token, tenantID) can return: the user and tenant
\* are those of the session, else those of the claims, and the tenant of the
\* request is kept when neither is found
ValidateTokenOutcomes(token, tenantID) ==
    LET session == IF redisCache THEN RedisGetSession(token) ELSE {}
        bySession == {[UserID |-> s.UserID, TenantID |-> s.TenantID] : s \in session}
        byClaims == IF \E f \in bySession : f.UserID # "" THEN {} ELSE JwtClaims(token)
        found == IF byClaims # {} THEN byClaims ELSE bySession
    IN  UNION {{ValidateTokenChecks(f.UserID, f.TenantID, user) :
                   user \in FindOne(UserRepo_FindByID(f.UserID))} :
               f \in IF found = {} THEN {[UserID |-> "", TenantID |-> tenantID]}
                     ELSE found}

ValidateTokenCall(token, tenantID) ==
    /\ \E result \in ValidateTokenOutcomes(token, tenantID) :
           last' = Op("ValidateToken", "", "", tenantID, token, result, 0)
    /\ UNCHANGED <<users_auth, user_tenants, tenant_login_configs, roles, refresh_tokens,
                   redisCache, sessions, permCache, now, nextToken, tokenLimit, changes,
                   failStreak, vt, gp, calls, gw, hist>>

\* The internal tokens a gateway has made in this unit of the clock: one for
\* the user and tenant of each pair issued in it
InternalTokens ==
    {GenerateToken([UserID |-> r.UserID, TenantID |-> r.TenantID]) :
        r \in {x \in refresh_tokens : x.ExpiresAt - RefreshTTL = now}}

BearerInputs == TokenInputs \cup InternalTokens

\* Logins, refreshes and logouts, and validations of every string a client
\* holds: access tokens, refresh tokens, internal tokens, and one never issued
NextBearer ==
    \/ \E identifier \in {"alice", "bob"}, tenantID \in TenantIDs :
           Login(identifier, "pw", tenantID)
    \/ \E token \in RefreshInputs : RefreshToken(token)
    \/ \E token \in IssuedAccessTokens : Logout(token)
    \/ \E token \in BearerInputs : VerifyToken(token)
    \/ \E token \in BearerInputs, tenantID \in TenantIDs : ValidateTokenCall(token, tenantID)
    \/ Tick

SpecBearer == InitIssue /\ [][NextBearer]_vars

\* Changes that take access away or give it back
SessionChanges ==
    \/ \E userID \in UserIDs, isActive \in BOOLEAN : UpdateUser(userID, isActive)
    \/ \E userID \in UserIDs, tenantID \in TenantIDs :
           RemoveUserFromTenant(userID, tenantID)
    \/ \E userID \in UserIDs, tenantID \in TenantIDs :
           DeleteMembership(userID, tenantID)

\* Token validation: sessions are created, verified, deleted and outlived
\* while users and memberships are deactivated.
NextVerify ==
    \/ \E identifier \in {"alice", "bob"}, tenantID \in TenantIDs :
           Login(identifier, "pw", tenantID)
    \/ \E token \in AccessInputs : VerifyToken(token)
    \/ \E token \in RefreshInputs : RefreshToken(token)
    \/ \E token \in IssuedAccessTokens : Logout(token)
    \/ SessionChanges
    \/ Tick

SpecVerify == InitFew /\ [][NextVerify]_vars

\* Token validation while the roles of the session's membership are replaced
InitVerifyRoles ==
    /\ InitStores
    /\ redisCache = TRUE
    /\ tokenLimit = MaxTokens
    /\ failStreak = NoStreak
    /\ vt = NoVerify
    /\ gp = <<>>
    /\ calls = <<>>
    /\ gw = NoGateway
    /\ permCache = NoPermCache
    /\ hist = NoHistory

NextVerifyRoles ==
    \/ \E identifier \in {"alice", "bob"} : Login(identifier, "pw", "T1")
    \/ \E token \in AccessInputs : VerifyToken(token)
    \/ \E userID \in UserIDs, rs \in {{"user"}, {"admin"}, {"viewer"}} :
           UpdateRoles(userID, "T1", rs)
    \/ Tick

SpecVerifyRoles == InitVerifyRoles /\ [][NextVerifyRoles]_vars

\* Logout against validation: sessions are created, validated step by step
\* and logged out between the steps, in a service that keeps sessions.
InitRace ==
    /\ InitStores
    /\ redisCache = TRUE
    /\ tokenLimit = MaxIssued
    /\ failStreak = NoStreak
    /\ vt = NoVerify
    /\ gp = <<>>
    /\ calls = <<>>
    /\ gw = NoGateway
    /\ permCache = NoPermCache
    /\ hist = NoHistory

NextRace ==
    \/ \E identifier \in {"alice", "bob"}, tenantID \in TenantIDs :
           Login(identifier, "pw", tenantID)
    \/ \E token \in AccessInputs : VerifyGetSession(token)
    \/ VerifyFindUser
    \/ VerifyFindMembership
    \/ \E token \in IssuedAccessTokens : Logout(token)
    \/ Tick

SpecRace == InitRace /\ [][NextRace]_vars

\* Failed logins: right and wrong passwords for the users of the tenants,
\* with the failed password checks of the current window counted.
InitLockout ==
    /\ InitStores
    /\ redisCache \in BOOLEAN
    /\ tokenLimit = MaxIssued
    /\ failStreak = [NoStreak EXCEPT !.on = TRUE]
    /\ vt = NoVerify
    /\ gp = <<>>
    /\ calls = <<>>
    /\ gw = NoGateway
    /\ permCache = NoPermCache
    /\ hist = NoHistory

NextLockout ==
    \/ \E identifier \in {"alice", "bob"}, password \in Passwords, tenantID \in TenantIDs :
           Login(identifier, password, tenantID)
    \/ Tick

SpecLockout == InitLockout /\ [][NextLockout]_vars

\* Permissions: calls of GetUserPermissions and CheckPermission run step by
\* step while roles are taken from memberships, the cache is invalidated and
\* time passes.  Time is counted in cache TTLs here.
InitPerm ==
    /\ InitStores
    /\ redisCache = TRUE
    /\ tokenLimit = MaxIssued
    /\ failStreak = NoStreak
    /\ vt = NoVerify
    /\ gp = [c \in 1..MaxCalls |-> NoCall]
    /\ calls = <<>>
    /\ gw = NoGateway
    /\ permCache \in {[present |-> b, entries |-> {}] : b \in BOOLEAN}
    /\ hist = NoHistory

NextPerm ==
    \/ \E c \in 1..MaxCalls, permission \in {"user.read", "user.write"} :
           GetUserPermissions_Cache(c, "CheckPermission", "u1", "T1", permission)
    \/ \E c \in 1..MaxCalls :
           GetUserPermissions_Cache(c, "GetUserPermissions", "u1", "T1", "")
    \/ \E c \in 1..MaxCalls : GetUserPermissions_Membership(c)
    \/ \E c \in 1..MaxCalls : GetUserPermissions_Roles(c)
    \/ \E c \in 1..MaxCalls : GetUserPermissions_Set(c)
    \/ \E rs \in {{"user"}, {"admin"}} : UpdateRoles("u1", "T1", rs)
    \/ InvalidateUserPermissionCache("u1", "T1")
    \/ Tick

SpecPerm == InitPerm /\ [][NextPerm]_vars

\* Permission checks one call at a time, for a membership that starts with
\* any of the role sets
RoleSets ==
    {{"user"}, {"admin"}, {"super_admin"}, {"user_admin"}, {"viewer"},
     {"viewer", "user_admin"}, {"user", "super_admin"}}

Requested ==
    {"user.read", "user.write", "user.delete", "billing.read", "tenant.read",
     "anything.can.do", "everything"}

SeedWithRoles(rs) ==
    {IF ut.UserID = "u1" /\ ut.TenantID = "T1" THEN [ut EXCEPT !.Roles = rs] ELSE ut :
        ut \in SeedUserTenants}

InitCheck ==
    /\ users_auth = SeedUsers
    /\ user_tenants \in {SeedWithRoles(rs) : rs \in RoleSets}
    /\ tenant_login_configs = SeedLoginConfigs
    /\ roles = SeedRoles
    /\ refresh_tokens = {} /\ sessions = {}
    /\ now = 0 /\ nextToken = 1 /\ changes = 0
    /\ last = NoOp
    /\ redisCache = TRUE
    /\ tokenLimit = MaxIssued
    /\ failStreak = NoStreak
    /\ vt = NoVerify
    /\ gp = <<>>
    /\ calls = <<>>
    /\ gw = NoGateway
    /\ permCache \in {[present |-> b, entries |-> {}] : b \in BOOLEAN}
    /\ hist = NoHistory

NextCheck ==
    \/ \E userID \in {"u1", "u2"}, permission \in Requested :
           CheckPermission(userID, "T1", permission)
    \/ \E rs \in RoleSets : UpdateRoles("u1", "T1", rs)
    \/ InvalidateUserPermissionCache("u1", "T1")
    \/ Tick

SpecCheck == InitCheck /\ [][NextCheck]_vars

\* Checks of several permissions at once, for a membership that starts with
\* any of the role sets
RequiredLists ==
    {<<>>, <<"user.read">>, <<"user.read", "user.write">>,
     <<"user.read", "user.write", "user.delete">>,
     <<"user.delete", "tenant.read", "user.write">>,
     <<"billing.read", "user.write", "billing.read">>,
     <<"everything", "user.read", "anything.can.do">>}

NextCheckAll ==
    \/ \E userID \in {"u1", "u2"}, requiredPermissions \in RequiredLists :
           CheckPermissions(userID, "T1", requiredPermissions)
    \/ \E rs \in RoleSets : UpdateRoles("u1", "T1", rs)
    \/ Tick

SpecCheckAll == InitCheck /\ [][NextCheckAll]_vars

\* The permission resolver while memberships change: the calls of a member
\* of T1, of a user whose membership is inactive and of one without a
\* membership row
ResolverPairs == {<<"u1", "T1">>, <<"u2", EmptyTenantID>>, <<"u2", "T2">>}

InitResolver ==
    /\ InitStores
    /\ redisCache = TRUE
    /\ tokenLimit = MaxIssued
    /\ failStreak = NoStreak
    /\ vt = NoVerify
    /\ gp = <<>>
    /\ calls = <<>>
    /\ gw = NoGateway
    /\ permCache \in {[present |-> b, entries |-> {}] : b \in BOOLEAN}
    /\ hist = NoHistory

NextResolver ==
    \/ \E pair \in ResolverPairs : GetUserPermissionsCall(pair[1], pair[2])
    \/ \E pair \in ResolverPairs : GetUserRolesCall(pair[1], pair[2])
    \/ \E pair \in ResolverPairs, permission \in {"user.read", "user.write"} :
           CheckPermission(pair[1], pair[2], permission)
    \/ \E rs \in {{"user"}, {"admin"}} : AddUserToTenant("u1", "T1", rs)
    \/ RemoveUserFromTenant("u1", "T1")
    \/ \E tenantID \in TenantIDs : InvalidateTenantPermissionCache(tenantID)
    \/ Tick

SpecResolver == InitResolver /\ [][NextResolver]_vars

\* Registrations and membership changes that overlap
RegisterInput(email, username, phone, password, tenantID, rs) ==
    [email |-> email, username |-> username, phone |-> phone, docNumber |-> "",
     password |-> password, tenant |-> tenantID, roles |-> rs]

RegisterInputs ==
    {RegisterInput("n@b.c", "neo", "777", "Passw0rd", "", {}),
     RegisterInput("n@b.c", "", "", "Passw0rd", "T1", {"admin"}),
     RegisterInput("", "alice", "", "Passw0rd", "", {}),
     RegisterInput("", "trinity", "", "password", "", {}),
     RegisterInput("alice", "", "", "Passw0rd", "", {})}

InitRegister ==
    /\ users_auth = SeedUsers
    /\ user_tenants = SeedUserTenants
    /\ tenant_login_configs \in
           {{LoginConfig("T1", allowRegistration, FALSE)} : allowRegistration \in BOOLEAN}
    /\ roles = SeedRoles
    /\ refresh_tokens = {} /\ sessions = {}
    /\ now = 0 /\ nextToken = 1 /\ changes = 0
    /\ last = NoOp
    /\ redisCache = TRUE
    /\ tokenLimit = MaxIssued
    /\ failStreak = NoStreak
    /\ vt = NoVerify
    /\ gp = <<>>
    /\ calls = [c \in 1..MaxCalls |-> NoRegister]
    /\ gw = NoGateway
    /\ permCache = NoPermCache
    /\ hist = NoHistory

NextRegister ==
    \/ \E c \in 1..MaxCalls, in \in RegisterInputs, lookupFails \in BOOLEAN :
           Register_Check(c, in, lookupFails)
    \/ \E c \in 1..MaxCalls : Register_CreateUser(c)
    \/ \E c \in 1..MaxCalls, insertFails \in BOOLEAN : Register_CreateMembership(c, insertFails)

SpecRegister == InitRegister /\ [][NextRegister]_vars

\* Registrations that overlap and present one string in different identifier
\* fields; every identifier lookup works
CrossInputs ==
    {RegisterInput("", "777", "", "Passw0rd", "", {}),
     RegisterInput("", "", "777", "Passw0rd", "", {}),
     RegisterInput("n@b.c", "neo", "", "Passw0rd", "", {}),
     RegisterInput("", "n@b.c", "", "Passw0rd", "", {})}

NextRegisterCross ==
    \/ \E c \in 1..MaxCalls, in \in CrossInputs : Register_Check(c, in, FALSE)
    \/ \E c \in 1..MaxCalls : Register_CreateUser(c)
    \/ \E c \in 1..MaxCalls, insertFails \in BOOLEAN : Register_CreateMembership(c, insertFails)

SpecRegisterCross == InitRegister /\ [][NextRegisterCross]_vars

\* Refresh tokens that are presented while they are valid, at and after their
\* expiry, and after they were revoked
InitRefresh ==
    /\ InitStores
    /\ redisCache = TRUE
    /\ tokenLimit = MaxTokens
    /\ failStreak = NoStreak
    /\ vt = NoVerify
    /\ gp = <<>>
    /\ calls = <<>>
    /\ gw = NoGateway
    /\ permCache = NoPermCache
    /\ hist = NoHistory

NextRefresh ==
    \/ \E tenantID \in TenantIDs : Login("alice", "pw", tenantID)
    \/ \E token \in RefreshInputs : RefreshToken(token)
    \/ \E token \in RefreshInputs : RefreshTokenRepo_Revoke(token)
    \/ \E days \in {1, RefreshTTL - 1} : Advance(days)

SpecRefresh == InitRefresh /\ [][NextRefresh]_vars

\* Requests at the gateway, as main.go builds it (no AuthClient) and with an
\* AuthClient handed to AuthMiddleware
InitGateway ==
    /\ InitStores
    /\ redisCache = TRUE
    /\ tokenLimit = MaxIssued
    /\ failStreak = NoStreak
    /\ vt = NoVerify
    /\ gp = <<>>
    /\ calls = <<>>
    /\ gw \in {[authClient |-> b, cache |-> {}] : b \in BOOLEAN}
    /\ permCache = NoPermCache
    /\ hist = NoHistory

\* The answers of the auth service at the gateway
Validations ==
    {ValidateTokenResponse(TRUE, "u1", "T1"), ValidateTokenResponse(FALSE, "", ""),
     ValidateTokenError}

NextGateway ==
    \/ \E path \in GatewayPaths, authHeader \in AuthHeaders, tenantID \in TenantIDs,
          validation \in Validations, signFails \in BOOLEAN :
           GatewayRequest(path, authHeader, tenantID, validation, signFails)
    \/ GatewayTick

SpecGateway == InitGateway /\ [][NextGateway]_vars

\* The authenticated path of the gateway: tokens of two users of different
\* tenants, each sent with either tenant in the X-Tenant-ID header
ForwardPaths == {"/auth-service/users", "/auth-service/auth/login"}

ForwardHeaders == {<<>>, <<"Bearer", "tok1">>, <<"bearer", "tok2">>}

ForwardTenants == {"T1", "T2"}

\* The auth service answers with the claims of the token's session
ForwardValidations(authHeader) ==
    {ValidateTokenResponse(FALSE, "", ""), ValidateTokenError} \cup
        (IF extractToken(authHeader) = "tok1"
             THEN {ValidateTokenResponse(TRUE, "u1", "T1")}
             ELSE {ValidateTokenResponse(TRUE, "u2", "T2")})

InitForward ==
    /\ InitStores
    /\ redisCache = TRUE
    /\ tokenLimit = MaxIssued
    /\ failStreak = NoStreak
    /\ vt = NoVerify
    /\ gp = <<>>
    /\ calls = <<>>
    /\ gw \in {[authClient |-> b, cache |-> {}] : b \in BOOLEAN}
    /\ permCache = NoPermCache
    /\ hist = NoHistory

NextForward ==
    \/ \E path \in ForwardPaths, authHeader \in ForwardHeaders,
          tenantID \in ForwardTenants, signFails \in BOOLEAN :
           \E validation \in ForwardValidations(authHeader) :
               GatewayRequest(path, authHeader, tenantID, validation, signFails)
    \/ GatewayTick

SpecForward == InitForward /\ [][NextForward]_vars

\* The proxy: request paths under each routing rule, with and without a rest
\* and a trailing "/", for every choice of registered services
ProxyPaths ==
    {<<"/", "api", "/", "auth-service", "/", "users", "/", "7">>,
     <<"/", "api", "/", "auth-service">>,
     <<"/", "api", "/", "auth-service", "/">>,
     <<"/", "api", "/", "billing", "/", "invoices">>,
     <<"/", "api", "/", "auth", "-frontend", "/", "x">>,
     <<"/", "api", "/">>,
     <<"/", "api", "/", "/", "x">>,
     <<"/", "api">>,
     <<"/", "apis", "/", "auth-service", "/", "users">>,
     <<"/", "page", "/", "auth", "/", "login">>,
     <<"/", "page", "/", "auth">>,
     <<"/", "page", "/", "auth-service", "/", "login">>,
     <<"/", "upload", "/", "avatars", "/", "k1">>,
     <<"/", "upload", "/">>,
     <<"/", "upload">>,
     <<"/", "about", "/", "team">>,
     <<"/">>}

ServiceNames ==
    {<<"auth-service">>, <<"file-service">>, <<"auth", "-frontend">>, <<"slug-service">>}

InitProxy ==
    /\ InitStores
    /\ redisCache = TRUE
    /\ tokenLimit = MaxIssued
    /\ failStreak = NoStreak
    /\ vt = NoVerify
    /\ gp = <<>>
    /\ calls = <<>>
    /\ gw = NoGateway
    /\ permCache = NoPermCache
    /\ hist = NoHistory

NextProxy ==
    \E path \in ProxyPaths, services \in SUBSET ServiceNames : ProxyRequest(path, services)

SpecProxy == InitProxy /\ [][NextProxy]_vars

\* The gateway in front of the auth service: logins, logouts and requests
\* with the issued tokens, at a gateway as main.go builds it (no AuthClient)
\* and at one with an AuthClient.  Time is counted in lifetimes of a gateway
\* cache entry.
LagPaths == {"/auth-service/users"}

LagHeaders == {<<"Bearer", "tok1">>, <<"Bearer", "tok2">>}

InitGatewayLag ==
    /\ InitStores
    /\ redisCache = TRUE
    /\ tokenLimit = MaxTokens
    /\ failStreak = NoStreak
    /\ vt = NoVerify
    /\ gp = <<>>
    /\ calls = <<>>
    /\ gw \in {[authClient |-> b, cache |-> {}] : b \in BOOLEAN}
    /\ permCache = NoPermCache
    /\ hist = NoHistory

NextGatewayLag ==
    \/ Login("alice", "pw", "T1")
    \/ \E token \in IssuedAccessTokens : Logout(token)
    \/ \E path \in LagPaths, authHeader \in LagHeaders, tenantID \in TenantIDs,
          signFails \in BOOLEAN, transportFails \in BOOLEAN :
           GatewayValidate(path, authHeader, tenantID, signFails, transportFails)
    \/ GatewayTick

SpecGatewayLag == InitGatewayLag /\ [][NextGatewayLag]_vars

\* One registration, and the logins that follow it
InitRegisterLogin ==
    /\ users_auth = SeedUsers
    /\ user_tenants = SeedUserTenants
    /\ tenant_login_configs \in
           {{LoginConfig("T1", allowRegistration, FALSE)} : allowRegistration \in BOOLEAN}
    /\ roles = SeedRoles
    /\ refresh_tokens = {} /\ sessions = {}
    /\ now = 0 /\ nextToken = 1 /\ changes = 0
    /\ last = NoOp
    /\ redisCache \in BOOLEAN
    /\ tokenLimit = MaxIssued
    /\ failStreak = NoStreak
    /\ vt = NoVerify
    /\ gp = <<>>
    /\ calls = <<NoRegister>>
    /\ gw = NoGateway
    /\ permCache = NoPermCache
    /\ hist = NoHistory

NextRegisterLogin ==
    \/ \E in \in RegisterInputs, lookupFails \in BOOLEAN : Register_Check(1, in, lookupFails)
    \/ Register_CreateUser(1)
    \/ \E insertFails \in BOOLEAN : Register_CreateMembership(1, insertFails)
    \/ \E identifier \in {"n@b.c", "neo", "777", "alice", "trinity"},
          password \in {"Passw0rd", "password", "pw"}, tenantID \in TenantIDs :
           Login(identifier, password, tenantID)

SpecRegisterLogin == InitRegisterLogin /\ [][NextRegisterLogin]_vars

\* Membership changes that overlap, and a registration whose user they name
MemberInputs ==
    {<<"u3", "T1", {"user"}>>, <<"u3", "T1", {"admin"}>>, <<"u2", "", {"admin"}>>,
     <<"u2", "T1", {"admin"}>>}

NextMembers ==
    \/ \E c \in 1..MaxCalls :
           Register_Check(c, RegisterInput("n@b.c", "", "", "Passw0rd", "T1", {"admin"}),
                          FALSE)
    \/ \E c \in 1..MaxCalls : Register_CreateUser(c)
    \/ \E c \in 1..MaxCalls, insertFails \in BOOLEAN : Register_CreateMembership(c, insertFails)
    \/ \E c \in 1..MaxCalls, in \in MemberInputs :
           AddUserToTenant_Find(c, in[1], in[2], in[3])
    \/ \E c \in 1..MaxCalls : AddUserToTenant_Write(c)
    \/ \E in \in MemberInputs : RemoveUserFromTenant(in[1], in[2])

SpecMembers == InitRegister /\ [][NextMembers]_vars

----------------------------------------------------------------------------
(* Properties of the token lifecycle, under Spec *)

ActiveUser(userID) ==
    \E u \in users_auth : u.ID = userID /\ u.IsActive

ActiveMembership(userID, tenantID) ==
    \E ut \in user_tenants :
        ut.UserID = userID /\ ut.TenantID = tenantID /\ ut.IsActive

\* The refresh credential was generated by a Login
IssuedByLogin(row) ==
    \E k \in 1..Len(hist.issued) :
        row.Token = RefreshTokenStr(k) /\ hist.issued[k].op = "Login"

\* C1: refresh rotation.  Once RefreshToken(r) has returned a new token pair,
\* the credential r is revoked and the store no longer yields it, so that
\* every later RefreshToken(r) fails.
C1_RefreshRotation ==
    (last.op = "RefreshToken" /\ last.result.kind = "ok") =>
        /\ \A row \in refresh_tokens : row.Token = last.token => row.Revoked
        /\ RefreshTokenRepo_FindByToken(last.token) = {}

\* C2: for an active user with an active membership in tenant T and a service
\* that keeps sessions, RefreshToken(R1) of the credential R1 a Login for T
\* issued succeeds and returns a pair for the same user and for T, the new
\* access token verifies, and the access token of the Login still verifies
\* while its session is there.
C2_LoginRefreshVerify ==
    \A row \in refresh_tokens :
        ( /\ redisCache
          /\ last.op = "RefreshToken" /\ last.token = row.Token
          /\ IssuedByLogin(row)
          /\ ~row.Revoked /\ now < row.ExpiresAt
          /\ ActiveUser(row.UserID)
          /\ ActiveMembership(row.UserID, row.TenantID) )
        => /\ last.result.kind = "ok"
           /\ last.result.user = row.UserID
           /\ last.result.tenant = row.TenantID
           /\ \A r \in VerifyOutcomes(last.result.access) : r.kind = "ok"
           /\ \A k \in 1..Len(hist.issued) :
                  (row.Token = RefreshTokenStr(k) /\ RedisGetSession(AccessToken(k)) # {})
                  => \A r \in VerifyOutcomes(AccessToken(k)) : r.kind = "ok"

\* C3: in a service that keeps sessions, the access token a successful Login
\* or RefreshToken has just returned verifies: VerifyToken succeeds and
\* reports the user and the tenant of the response.
C3_IssuedTokenVerifies ==
    (redisCache /\ last.op \in {"Login", "RefreshToken"} /\ last.result.kind = "ok") =>
        \A r \in VerifyOutcomes(last.result.access) :
            /\ r.kind = "ok"
            /\ r.user = last.result.user
            /\ r.tenant = last.result.tenant

----------------------------------------------------------------------------
(* Properties of Login, under SpecLogin *)

\* The kind of the submitted identifier: the first of email, username, phone
\* and document number of the user that equals it
SubmittedKind(identifier, u) ==
    CASE u.Email = identifier -> "email"
      [] u.Username = identifier -> "username"
      [] u.Phone = identifier -> "phone"
      [] OTHER -> "document_number"

AllowedKinds(tenantID) == LoginConfigRepo_FindByTenant(tenantID).AllowedIdentifiers

TenantDeniedMsgs ==
    {"User does not have access to this tenant",
     "User access to this tenant is deactivated"}

\* C6, as stated: Login for a user without an active membership for the tenant
\* fails with forbidden, tenant access denied, whatever the password, and
\* issues no session and no refresh credential.
C6_TenantDeniedAlways ==
    [][(last'.op = "Login" /\
        \E u \in UserRepo_FindByIdentifier(last'.identifier) :
            ~ActiveMembership(u.ID, last'.tenant))
       => /\ last'.result.kind = "forbidden"
          /\ last'.result.msg \in TenantDeniedMsgs
          /\ UNCHANGED <<sessions, refresh_tokens, nextToken>>]_vars

\* C6, amended: Login for a user without an active membership for the tenant
\* fails with forbidden whatever the password and issues no session and no
\* refresh credential; the reason is tenant access denied when the kind of the
\* identifier is allowed for the tenant, and identifier type not allowed when
\* it is not.
C6_CrossTenantIsolation ==
    [][\A u \in UserRepo_FindByIdentifier(last'.identifier) :
        (last'.op = "Login" /\ ~ActiveMembership(u.ID, last'.tenant))
        => /\ last'.result.kind = "forbidden"
           /\ IF SubmittedKind(last'.identifier, u) \in AllowedKinds(last'.tenant)
                THEN last'.result.msg \in TenantDeniedMsgs
                ELSE last'.result.msg = NotAllowedMsg(SubmittedKind(last'.identifier, u))
           /\ last'.result.access = NoToken /\ last'.result.refresh = NoToken
           /\ UNCHANGED <<sessions, refresh_tokens, nextToken>>]_vars

\* A Login with the right password was refused for want of a membership row
C6_Witness ==
    /\ last.op = "Login" /\ last.password = "pw"
    /\ last.result = Forbidden("User does not have access to this tenant")
    /\ \E u \in UserRepo_FindByIdentifier(last.identifier) :
           UserTenantRepo_FindByUserAndTenant(u.ID, last.tenant) = {}

\* C7, as stated: for every tenant and every existing user, whatever the
\* membership, activation and allowed identifier kinds, a Login with a wrong
\* password shows the client what a Login with an unknown identifier shows.
C7_AnyUserIndistinguishable ==
    (last.op = "Login" /\ GrpcLoginValid(last.identifier, last.password, last.tenant)) =>
        /\ UserRepo_FindByIdentifier(last.identifier) = {}
           => last.result = Unauthorized("Invalid credentials")
        /\ \A u \in UserRepo_FindByIdentifier(last.identifier) :
               ~CheckPassword(last.password, u.PasswordHash)
               => GrpcLoginError(last.result) =
                  GrpcLoginError(Unauthorized("Invalid credentials"))

\* C7, amended: a Login with an unknown identifier, and a Login with a wrong
\* password for a user whose identifier kind is allowed for the tenant, whose
\* membership is active and whose account is active, return the same error,
\* unauthorized "Invalid credentials".
C7_NotFoundLikeBadPassword ==
    last.op = "Login" =>
        /\ UserRepo_FindByIdentifier(last.identifier) = {}
           => last.result = Unauthorized("Invalid credentials")
        /\ \A u \in UserRepo_FindByIdentifier(last.identifier) :
               ( /\ ~CheckPassword(last.password, u.PasswordHash)
                 /\ SubmittedKind(last.identifier, u) \in AllowedKinds(last.tenant)
                 /\ ActiveMembership(u.ID, last.tenant)
                 /\ ActiveUser(u.ID) )
               => last.result = Unauthorized("Invalid credentials")

\* A wrong password for an active member was answered with the error of an
\* unknown identifier
C7_Witness ==
    /\ last.op = "Login" /\ last.password = "wrong"
    /\ last.result = Unauthorized("Invalid credentials")
    /\ \E u \in UserRepo_FindByIdentifier(last.identifier) :
           /\ ActiveMembership(u.ID, last.tenant) /\ ActiveUser(u.ID)
           /\ SubmittedKind(last.identifier, u) \in AllowedKinds(last.tenant)

\* C8: identifier-type gating.  Login fails with forbidden, identifier type
\* not allowed, whenever the kind of the submitted identifier is not among the
\* tenant's allowed identifiers, whatever the password; with an allowed kind,
\* the right password, an active membership and an active account it returns
\* a token pair for the user and the tenant.
C8_IdentifierTypeGating ==
    last.op = "Login" =>
        \A u \in UserRepo_FindByIdentifier(last.identifier) :
            /\ SubmittedKind(last.identifier, u) \notin AllowedKinds(last.tenant)
               => last.result = Forbidden(NotAllowedMsg(SubmittedKind(last.identifier, u)))
            /\ ( /\ SubmittedKind(last.identifier, u) \in AllowedKinds(last.tenant)
                 /\ CheckPassword(last.password, u.PasswordHash)
                 /\ ActiveMembership(u.ID, last.tenant)
                 /\ ActiveUser(u.ID) )
               => /\ last.result.kind = "ok"
                  /\ last.result.access \in AccessTokens
                  /\ last.result.refresh \in RefreshTokenStrs
                  /\ last.result.user = u.ID
                  /\ last.result.tenant = last.tenant

\* On the tenant that allows only usernames, a Login with the username has
\* returned a token pair and a Login with the e-mail address of the same user
\* and the right password is refused.
C8_Witness ==
    /\ AllowedKinds("T1") = {IdentifierTypeUsername}
    /\ Len(hist.issued) >= 1
    /\ hist.issued[1] = [op |-> "Login", user |-> "u1", tenant |-> "T1"]
    /\ last.op = "Login" /\ last.identifier = "a@b.c" /\ last.password = "pw"
    /\ last.tenant = "T1"
    /\ last.result = Forbidden("Login with email is not allowed for this tenant")

----------------------------------------------------------------------------
(* Properties of token validation *)

\* A session under the token that is in the store and has not run out
LiveSession(token) ==
    {s \in sessions : s.Token = token /\ now < s.Deadline /\ now <= s.ExpiresAt}

\* C9, under SpecVerify: VerifyToken succeeds exactly when the session exists
\* and is unexpired, its user exists and is active, and the user's membership
\* for the session's tenant exists and is active; so it fails when the user is
\* missing or deactivated or the membership missing or inactive, although the
\* session is unexpired.
C9_VerifyChecksUserAndMembership ==
    last.op = "VerifyToken" =>
        /\ last.result.kind = "ok"
           <=> /\ redisCache
               /\ \E s \in LiveSession(last.token) :
                      ActiveUser(s.UserID) /\ ActiveMembership(s.UserID, s.TenantID)
        /\ \A s \in LiveSession(last.token) :
               (redisCache /\ ~(ActiveUser(s.UserID) /\ ActiveMembership(s.UserID, s.TenantID)))
               => last.result.kind \in {"unauthorized", "forbidden"}

\* A validation failed for a deactivated user whose session is unexpired
C9_Witness ==
    /\ last.op = "VerifyToken" /\ last.result.kind = "forbidden"
    /\ \E s \in LiveSession(last.token) :
           ~ActiveUser(s.UserID) /\ ActiveMembership(s.UserID, s.TenantID)

C5_Lockout ==
    \A u \in UserRepo_FindByIdentifier(last.identifier) :
        ( /\ last.op = "Login"
          /\ last.prior >= LoginConfigRepo_FindByTenant(last.tenant).MaxLoginAttempts )
        => /\ last.result.kind = "forbidden"
           /\ last.result.access = NoToken

----------------------------------------------------------------------------
(* Properties of the permission resolver, under SpecPerm *)

\* C10: when a change of the roles of (u, t) has taken permission p away and
\* InvalidateUserPermissionCache(u, t) has completed, or one cache TTL has
\* passed since the change, every CheckPermission(u, t, p) that starts
\* afterwards returns false, whatever calls for (u, t) were in flight during
\* the change.
C10_RemovedPermissionDenied ==
    \A c \in DOMAIN gp :
        ( /\ gp[c].pc = "returned" /\ gp[c].op = "CheckPermission"
          /\ gp[c].covered /\ gp[c].epoch = changes )
        => ~gp[c].allowed

----------------------------------------------------------------------------
(* Properties of the permission decision, under SpecCheck *)

\* C11: when the permissions resolved for (u, t) contain "*", CheckPermission
\* (u, t, r) returns true for every requested string r, also for one that is
\* not of the form resource.action.
C11_SuperAdminWildcard ==
    ( /\ last.op = "CheckPermission"
      /\ "*" \in last.result.perms )
    => last.result.allowed

C11_Witness ==
    /\ last.op = "CheckPermission"
    /\ "*" \in last.result.perms
    /\ last.result.permission = "everything"
    /\ last.result.allowed

\* The resource a permission string of the model names, "" when the string is
\* not resource.action
ResourceOf(permission) ==
    CASE permission \in {"user.read", "user.write", "user.delete", "user.*"} -> "user"
      [] permission \in {"billing.read"} -> "billing"
      [] permission \in {"tenant.read"} -> "tenant"
      [] OTHER -> ""

ResourceWildcards == {"user.*"}

\* C12: a held "res.*" satisfies every required "res.<action>" of the same
\* resource and none of another resource; without "*", a required permission
\* that is neither held nor covered by a held wildcard of its resource is
\* denied (user.read and tenant.read do not satisfy user.write).
C12_ResourceWildcard ==
    last.op = "CheckPermission" =>
        LET held == last.result.perms
            required == last.result.permission
            covered == \E h \in held \cap ResourceWildcards :
                           ResourceOf(required) = ResourceOf(h)
        IN  /\ covered => last.result.allowed
            /\ ("*" \notin held /\ required \notin held /\ ~covered)
                   => ~last.result.allowed

C12_Witness ==
    /\ last.op = "CheckPermission"
    /\ last.result.perms = {"user.*", "user.read", "tenant.read"}
    /\ last.result.permission = "user.delete"
    /\ last.result.allowed

----------------------------------------------------------------------------
(* Properties of memberships, under SpecMembers *)

\* C13: when AddUserToTenant(u, t, roles) has returned success, the
\* membership (u, t) exists, is active and has exactly these roles, whether
\* there was no row before, an active row or an inactive row.
C13_AddUserToTenantResult ==
    ( /\ last.op = "AddUserToTenant"
      /\ last.result.result.kind = "ok" )
    => \E ut \in user_tenants :
           /\ ut.UserID = last.result.user /\ ut.TenantID = last.result.in.tenant
           /\ ut.IsActive
           /\ ut.Roles = last.result.in.roles

\* C14: under any interleaving of Register, AddUserToTenant and
\* RemoveUserFromTenant, also of two AddUserToTenant calls that both find no
\* row for the same pair, there is at most one membership row per
\* (user_id, tenant_id).
C14_OneMembershipPerPair ==
    \A a, b \in user_tenants :
        (a.UserID = b.UserID /\ a.TenantID = b.TenantID) => a = b

\* Two AddUserToTenant calls for the same pair with different roles both found
\* no row; one of them has inserted it and the other has failed on the index
C14_Witness ==
    \E c, d \in DOMAIN calls :
        /\ calls[c].op = "AddUserToTenant" /\ calls[d].op = "AddUserToTenant"
        /\ calls[c].user = calls[d].user /\ calls[c].in.tenant = calls[d].in.tenant
        /\ calls[c].in.roles # calls[d].in.roles
        /\ ~calls[c].existing /\ ~calls[d].existing
        /\ calls[c].pc = "returned" /\ calls[c].result.kind = "ok"
        /\ calls[d].pc = "returned" /\ calls[d].result.kind = "error"

----------------------------------------------------------------------------
(* Properties of registration, under SpecRegister *)

SameIdentifier(a, b) ==
    \/ a.Email # "" /\ a.Email = b.Email
    \/ a.Username # "" /\ a.Username = b.Username
    \/ a.Phone # "" /\ a.Phone = b.Phone
    \/ a.DocNumber # "" /\ a.DocNumber = b.DocNumber

C17_RegisterRejected ==
    \A c \in DOMAIN calls :
        ( /\ calls[c].op = "Register" /\ calls[c].pc = "returned"
          /\ \/ ~calls[c].facts.allowed
             \/ ~calls[c].facts.policy
             \/ calls[c].facts.taken
             \/ calls[c].lookupFails )
        => /\ calls[c].result.kind # "ok"
           /\ calls[c].user = ""
           /\ ~calls[c].facts.allowed => calls[c].result.kind = "forbidden"
           /\ (calls[c].facts.allowed /\ calls[c].facts.policy /\ ~calls[c].lookupFails)
                  => calls[c].result.kind = "conflict"

----------------------------------------------------------------------------
(* Registration followed by login, under SpecRegisterLogin *)

\* The last operation is a Login with an identifier, the password and the
\* tenant of a Register call that has succeeded
LoginAfterRegister(c) ==
    /\ last.op = "Login"
    /\ calls[c].op = "Register" /\ calls[c].pc = "returned"
    /\ calls[c].result.kind = "ok"
    /\ last.identifier \in {calls[c].in.email, calls[c].in.username, calls[c].in.phone,
                            calls[c].in.docNumber} \ {""}
    /\ last.password = calls[c].in.password
    /\ last.tenant = calls[c].in.tenant

\* The kind of an identifier given at registration
RegisteredKind(in, identifier) ==
    IF in.email = identifier THEN "email"
    ELSE IF in.username = identifier THEN "username"
    ELSE IF in.phone = identifier THEN "phone"
    ELSE "document_number"

----------------------------------------------------------------------------
(* Properties of refresh, under SpecRefresh *)

\* A stored credential with that token that is not revoked and expires later
\* than now
ValidCredential(token) ==
    \E r \in refresh_tokens : r.Token = token /\ ~r.Revoked /\ r.ExpiresAt > now

\* C18: RefreshToken(r) issues a new pair only if a stored credential for r
\* exists that is not revoked and whose expires_at is greater than now; for an
\* r that is revoked, expired (also with expires_at = now) or unknown it fails
\* as unauthenticated and creates neither a session nor a refresh credential.
C18_RefreshNeedsValidCredential ==
    [][ last'.op = "RefreshToken" =>
            /\ last'.result.kind = "ok" => ValidCredential(last'.token)
            /\ ~ValidCredential(last'.token) =>
                   /\ last'.result.kind = "unauthorized"
                   /\ sessions' = sessions
                   /\ refresh_tokens' = refresh_tokens ]_vars

\* A refresh token was presented at the moment it expires and was refused
C18_Witness ==
    /\ last.op = "RefreshToken"
    /\ last.result.kind = "unauthorized"
    /\ \E r \in refresh_tokens : r.Token = last.token /\ ~r.Revoked /\ r.ExpiresAt = now

----------------------------------------------------------------------------
(* Logout and the refresh credential, under Spec *)

\* C19: once Logout(t) has returned, the refresh credential issued in the same
\* pair as t is revoked (the credential store is reachable), and a later
\* RefreshToken with it fails.
C19_LogoutRevokesRefresh ==
    \A k \in 1..(nextToken - 1) :
        AccessToken(k) \in hist.loggedOut =>
            /\ \A r \in refresh_tokens : r.Token = RefreshTokenStr(k) => r.Revoked
            /\ (last.op = "RefreshToken" /\ last.token = RefreshTokenStr(k))
                   => last.result.kind # "ok"

----------------------------------------------------------------------------
(* Properties of the gateway, under SpecGateway *)

\* The login and register endpoints, /api/<service>/auth/login and
\* /api/<service>/auth/register
AuthEndpoints == {"/auth-service/auth/login", "/auth-service/auth/register"}

\* C20: a request under /api/ that is not a login or register endpoint is
\* forwarded only if it carries Authorization: Bearer <token> and the token
\* was validated, by a hit in the gateway cache or by a successful validation
\* call; without a well-formed header, or when the validation fails, it is
\* answered 401 and not forwarded.
C20_GatewayAuthCoverage ==
    (last.op = "Gateway" /\ last.result.path \notin AuthEndpoints) =>
        LET r == last.result
            bearer == /\ Len(r.authHeader) = 2
                      /\ r.authHeader[1] \in {"Bearer", "bearer"}
                      /\ r.authHeader[2] # ""
        IN  /\ r.forwarded => (bearer /\ r.validated \in {"hit", "call"})
            /\ ~bearer => (r.status = 401 /\ ~r.forwarded)
            /\ (bearer /\ r.validated = "none") => (r.status = 401 /\ ~r.forwarded)

----------------------------------------------------------------------------
(* Properties of the forwarded request, under SpecForward *)

\* C22: every request forwarded on the authenticated path carries X-Tenant-ID
\* equal to the tenant of the validated claims and Authorization: Bearer
\* <internal token made from those claims>; the client's access token and
\* the X-Tenant-ID the client sent are not what is forwarded.
C22_ForwardedHeaders ==
    (last.op = "Gateway" /\ last.result.forwarded
        /\ last.result.validated \in {"hit", "call"}) =>
        LET r == last.result
            token == extractToken(r.authHeader)
            claims == IF token = "tok1" THEN ValidateTokenResponse(TRUE, "u1", "T1")
                      ELSE ValidateTokenResponse(TRUE, "u2", "T2")
        IN  /\ r.claims = claims
            /\ r.tenantID = claims.TenantID
            /\ r.authorization = <<"Bearer", GenerateToken(claims)>>
            /\ r.authorization[2] # token

\* A request served from the cache is forwarded with the tenant of the
\* claims although the client sent another X-Tenant-ID
C22_Witness ==
    /\ last.op = "Gateway" /\ last.result.forwarded
    /\ last.result.validated = "hit"
    /\ last.tenant = "T1" /\ last.result.tenantID = "T2"

----------------------------------------------------------------------------
(* Properties of the gateway in front of the auth service, under SpecGatewayLag *)

\* The request of last carried the token string of a logged-out access token
LoggedOutRequest(op) ==
    /\ op.op = "Gateway"
    /\ GatewayToken(extractToken(op.result.authHeader)) \in hist.loggedOut

\* In every state: no cache entry outlives one cache lifetime from now, and a
\* request with a logged-out token is forwarded only from the cache and is
\* otherwise answered 401
C21_LagState ==
    /\ \A e \in gw.cache : e.Deadline <= now + GatewayCacheTTL
    /\ LoggedOutRequest(last) =>
           /\ last.result.forwarded => last.result.validated = "hit"
           /\ last.result.validated = "none" => last.result.status = 401

\* In every step: a request served from the cache found an entry that had not
\* run out and leaves the cache as it was; a request that found no such entry
\* went to the auth service; no entry is written for a logged-out token
C21_LagStep ==
    /\ (last'.op = "Gateway" /\ last'.result.validated = "hit") =>
           /\ gw' = gw
           /\ GatewayCacheGet(extractToken(last'.result.authHeader), last'.tenant) # {}
    /\ (last'.op = "Gateway" /\ last'.result.forwarded
           /\ GatewayCacheGet(extractToken(last'.result.authHeader), last'.tenant) = {})
           => last'.result.validated = "call"
    /\ \A e \in gw'.cache \ gw.cache : GatewayToken(e.Token) \notin hist.loggedOut

\* C21: a gateway cache entry is served for at most one cache lifetime after
\* the validation that created it, cache hits do not extend it, and the first
\* request after it ran out is validated by the auth service again; after
\* Logout(t) a request with t is forwarded only from an entry written before
\* the logout, so for at most one cache lifetime, and afterwards it is
\* answered 401.
C21_BoundedRevocationLag == []C21_LagState /\ [][C21_LagStep]_vars

----------------------------------------------------------------------------
(* Properties of the proxy routing, under SpecProxy *)

\* The piece of the path at position i, "" past its end
PieceAt(path, i) == IF i <= Len(path) THEN path[i] ELSE ""

\* The name in /<rule>/<name>/...: the pieces from the fourth up to the next "/"
NamedService(path) ==
    LET ends == {i \in 4..(Len(path) + 1) : PieceAt(path, i) \in {"/", ""}}
        end == CHOOSE i \in ends : \A j \in ends : i <= j
    IN  SubSeq(path, 4, end - 1)

\* /{rest}: what follows the first n pieces, "/" when nothing follows
RestFrom(path, n) ==
    IF n + 1 >= Len(path) THEN <<"/">> ELSE SubSeq(path, n + 1, Len(path))

\* C23: the proxy takes the first rule that matches the path:
\* /api/{service}/{rest} goes to the registered service with path /{rest},
\* /page/{service}/{rest} to {service}-frontend with path /{rest},
\* /upload/{rest} to file-service with path /{rest}, every other path to
\* slug-service with the path unchanged; when the service selected is not
\* registered the answer is 404 and nothing is forwarded.
C23_ProxyRouting ==
    last.op = "Proxy" =>
        LET path == last.result.path
            target == last.result.target
            rule == PieceAt(path, 1) = "/" /\ PieceAt(path, 3) = "/"
            selected ==
                IF rule /\ path[2] = "api" THEN NamedService(path)
                ELSE IF rule /\ path[2] = "page"
                    THEN NamedService(path) \o <<"-frontend">>
                ELSE IF rule /\ path[2] = "upload" THEN <<"file-service">>
                ELSE <<"slug-service">>
            sent ==
                IF rule /\ path[2] \in {"api", "page"}
                    THEN RestFrom(path, 3 + Len(NamedService(path)))
                ELSE IF rule /\ path[2] = "upload" THEN RestFrom(path, 2)
                ELSE path
        IN  IF selected \in last.result.services
                THEN target = ProxyResult(200, selected, sent)
                ELSE target.status = 404 /\ target.service = <<>>

\* A path under /api/ whose service is not registered is answered 404 while
\* the slug service is registered
C23_Witness ==
    /\ last.op = "Proxy"
    /\ last.result.path = <<"/", "api", "/", "billing", "/", "invoices">>
    /\ <<"slug-service">> \in last.result.services
    /\ last.result.target.status = 404

----------------------------------------------------------------------------
(* Properties of Login with failing token generation, under SpecLoginFault *)

\* The checks of Login that a user passes for the call of op, in order: the
\* first n of found by the identifier, identifier kind allowed, membership
\* active, account active, password matches
LoginPassed(op, n) ==
    \E u \in UserRepo_FindByIdentifier(op.identifier) :
        /\ n >= 2 => SubmittedKind(op.identifier, u) \in AllowedKinds(op.tenant)
        /\ n >= 3 => ActiveMembership(u.ID, op.tenant)
        /\ n >= 4 => u.IsActive
        /\ n >= 5 => CheckPassword(op.password, u.PasswordHash)

\* C24: Login creates a session and a refresh credential only if, checked in
\* this order, the user was found by the identifier, the identifier kind is
\* allowed by the tenant, the membership exists and is active, the account
\* is active and the password matches; a Login that returns an error has
\* created no session and no refresh credential.
C24_LoginCreatesOnlyOnSuccess ==
    [][last'.op = "Login" =>
        /\ (sessions' # sessions \/ refresh_tokens' # refresh_tokens)
               => LoginPassed(last', 5)
        /\ last'.result.kind = "forbidden" =>
               IF last'.result.msg = "User account is deactivated"
                   THEN LoginPassed(last', 3)
               ELSE IF last'.result.msg \in TenantDeniedMsgs THEN LoginPassed(last', 2)
               ELSE LoginPassed(last', 1)
        /\ last'.result.kind # "ok"
               => (sessions' = sessions /\ refresh_tokens' = refresh_tokens)]_vars

----------------------------------------------------------------------------
(* Properties of VerifyToken under role changes, under SpecVerifyRoles *)

\* C25: a successful VerifyToken(t) returns the roles of the current
\* membership of the session's (user, tenant) and the permissions resolved
\* from them, also when the roles were replaced after t was issued.
C25_VerifyReportsCurrentRoles ==
    (last.op = "VerifyToken" /\ last.result.kind = "ok") =>
        \E s \in sessions :
            /\ s.Token = last.token
            /\ \E ut \in UserTenantRepo_FindByUserAndTenant(s.UserID, s.TenantID) :
                   last.result.roles = ut.Roles
            /\ last.result.perms = ResolvedPermissions(s.UserID, s.TenantID)

----------------------------------------------------------------------------
(* Properties of the permission cache, under SpecResolver *)

\* The cache entries a call for (userID, tenantID) would be answered from
ServedEntries(cache, time, userID, tenantID) ==
    {e \in cache.entries : /\ cache.present
                            /\ e.UserID = userID /\ e.TenantID = tenantID
                            /\ time < e.Deadline /\ e.Value # {}}

\* C26: when RemoveUserFromTenant(u, t) or a role-replacing AddUserToTenant
\* (u, t, roles) has returned, no permission or role entry of (u, t) cached
\* before the change is left to answer GetUserPermissions(u, t) or
\* GetUserRoles(u, t).
C26_MembershipChangeInvalidates ==
    [][\A ut \in user_tenants \ user_tenants' :
          ServedEntries(permCache', now', ut.UserID, ut.TenantID) = {}]_vars

\* C27: when InvalidateTenantPermissionCache(t) has returned, no permission
\* entry written before the call for a user of tenant t is left to answer
\* GetUserPermissions.
C27_TenantInvalidation ==
    [][last'.op = "InvalidateTenantPermissionCache" =>
          \A userID \in UserIDs :
              {e \in ServedEntries(permCache', now', userID, last'.tenant) :
                  e.Key = "permissions"} = {}]_vars


\* No permission entry is cached for (userID, tenantID)
NothingCached(userID, tenantID) ==
    permCache.present => PermCacheGet(userID, tenantID) = {}

\* C28: when no permission entry is cached for (u, t) and u has no membership
\* row for t or the membership is inactive, GetUserPermissions(u, t) returns
\* the empty set and CheckPermission(u, t, p) returns false without an error
\* for every p, the roles are not read, and nothing is written to the cache.
C28_NoMembershipNoPermissions ==
    [][( /\ last'.op \in {"GetUserPermissions", "CheckPermission"}
         /\ NothingCached(last'.result.user, last'.tenant)
         /\ ~ActiveMembership(last'.result.user, last'.tenant) )
       => /\ last'.result.kind = "ok"
          /\ last'.result.perms = {}
          /\ last'.op = "CheckPermission" => ~last'.result.allowed
          /\ last'.op = "GetUserPermissions" => "roles" \notin last'.result.reads
          /\ permCache' = permCache]_vars

\* GetUserPermissions for a user whose membership was deactivated, with a
\* cache that holds nothing for the pair
C28_Witness ==
    /\ last.op = "GetUserPermissions" /\ last.result.user = "u1"
    /\ permCache.present /\ permCache.entries = {}
    /\ \E ut \in user_tenants : ut.UserID = "u1" /\ ut.TenantID = "T1" /\ ~ut.IsActive
    /\ last.result.perms = {} /\ last.result.reads = {"cache", "user_tenants"}

\* C29: when the cache holds an entry for (u, t) that is not empty,
\* GetUserPermissions(u, t) returns exactly that entry, reads neither the
\* membership nor the roles, and leaves the cache as it was.
C29_CacheHitFrame ==
    [][last'.op = "GetUserPermissions" =>
          \A e \in ServedEntries(permCache, now, last'.result.user, last'.tenant) :
              e.Key = "permissions"
              => /\ last'.result.perms = e.Value
                 /\ last'.result.reads = {"cache"}
                 /\ permCache' = permCache]_vars

\* A call was answered from the cache with a list the database no longer
\* holds for the pair
C29_Witness ==
    /\ last.op = "GetUserPermissions" /\ last.result.reads = {"cache"}
    /\ last.result.perms # {}
    /\ last.result.perms # ResolvedPermissions(last.result.user, last.tenant)

----------------------------------------------------------------------------
(* Properties of CheckPermissions, under SpecCheckAll *)

\* The held permissions satisfy the required one: "*" is held, or the
\* required permission itself, or the wildcard of its resource
Satisfied(held, required) ==
    \/ "*" \in held
    \/ required \in held
    \/ /\ ResourceOf(required) # ""
       /\ \E h \in held \cap ResourceWildcards : ResourceOf(h) = ResourceOf(required)

\* C30: CheckPermissions(u, t, required) returns hasAll = true iff every
\* permission in required is satisfied by the user's permission set, and
\* missing is exactly the sub-sequence of required that is not satisfied, in
\* the order of the request (empty iff hasAll is true).
C30_CheckPermissionsMissing ==
    last.op = "CheckPermissions" =>
        LET r == last.result
            unsatisfied == {i \in 1..Len(r.required) : ~Satisfied(r.perms, r.required[i])}
        IN  /\ r.kind = "ok"
            /\ r.hasAll <=> unsatisfied = {}
            /\ r.hasAll <=> r.missing = <<>>
            /\ Len(r.missing) = Cardinality(unsatisfied)
            /\ \A k \in 1..Len(r.missing) :
                   \E i \in unsatisfied :
                       /\ r.missing[k] = r.required[i]
                       /\ Cardinality({j \in unsatisfied : j < i}) = k - 1

\* Two of three required permissions are missing, in the order of the request
C30_Witness ==
    /\ last.op = "CheckPermissions"
    /\ last.result.perms = {"user.read", "tenant.read"}
    /\ last.result.required = <<"user.read", "user.write", "user.delete">>
    /\ last.result.missing = <<"user.write", "user.delete">>
    /\ ~last.result.hasAll

----------------------------------------------------------------------------
(* Token issuance with failing writes *)

\* The refresh token strings that were returned to a caller and have no row
\* in refresh_tokens
Unstored(token) ==
    /\ token \in {RefreshTokenStr(k) : k \in 1..(nextToken - 1)}
    /\ ~\E r \in refresh_tokens : r.Token = token

\* C31: when the session-store write of generateTokens fails, Login and
\* RefreshToken return the internal error "Failed to create session" and no
\* token pair, and they write nothing.  When the write of the refresh token
\* row fails, the call still returns the token pair, whose refresh token has
\* no row; a later RefreshToken with such a refresh token returns
\* unauthorized "Invalid refresh token".
C31_IssuanceFailures ==
    [][/\ \A identifier \in {"alice", "bob"} :
            /\ LoginFault(identifier, "pw", "T1", "redis") =>
                    /\ last'.result = Internal("Failed to create session")
                    /\ last'.result.access = NoToken /\ last'.result.refresh = NoToken
                    /\ UNCHANGED <<sessions, refresh_tokens>>
            /\ LoginFault(identifier, "pw", "T1", "create") =>
                    /\ last'.result.kind = "ok"
                    /\ last'.result.access = AccessToken(nextToken)
                    /\ last'.result.refresh = RefreshTokenStr(nextToken)
                    /\ nextToken' = nextToken + 1
                    /\ ~\E r \in refresh_tokens' : r.Token = RefreshTokenStr(nextToken)
       /\ \A token \in RefreshInputs :
            /\ RefreshTokenFault(token, "redis") =>
                    /\ last'.result = Internal("Failed to create session")
                    /\ last'.result.access = NoToken /\ last'.result.refresh = NoToken
                    /\ UNCHANGED <<sessions, refresh_tokens>>
            /\ RefreshTokenFault(token, "create") =>
                    /\ last'.result.kind = "ok"
                    /\ last'.result.refresh = RefreshTokenStr(nextToken)
                    /\ nextToken' = nextToken + 1
                    /\ ~\E r \in refresh_tokens' : r.Token = RefreshTokenStr(nextToken)
            /\ RefreshToken(token) /\ Unstored(token) =>
                    last'.result = Unauthorized("Invalid refresh token")]_vars

\* A refresh with a returned but unstored refresh token was refused as invalid
C31_Witness ==
    /\ last.op = "RefreshToken"
    /\ Unstored(last.token)
    /\ last.result = Unauthorized("Invalid refresh token")

\* C38: a Login or a RefreshToken that returns an error leaves the session
\* store as it was, also when generateTokens fails after its session write
\* (when signing the refresh token fails): no session stays behind under the
\* access token it generated.
C38_FailedIssuanceLeavesNoSession ==
    [][last'.op \in {"Login", "RefreshToken"} /\ last'.result.kind # "ok" =>
           /\ sessions' = sessions
           /\ ~\E s \in sessions' : s.Token = AccessToken(nextToken)]_vars

----------------------------------------------------------------------------
(* The lifetime of the sessions that token issuance writes *)

\* A duration in minutes, in units of the clock (days)
Days(minutes) == minutes \div MinutesPerDay

\* C32: a session written by token issuance expires SessionTimeout minutes
\* of the login configuration of its tenant after the issuance: the TTL of
\* its key in the session store (Deadline), its ExpiresAt and the ExpiresIn
\* of the response all equal that timeout.
C32_SessionTimeoutFromConfig ==
    [][\A s \in sessions' \ sessions :
           LET timeout == Days(LoginConfigRepo_FindByTenant(s.TenantID).SessionTimeout)
           IN  /\ s.Deadline = now + timeout
               /\ s.ExpiresAt = now + timeout
               /\ ExpiresIn = timeout]_vars

----------------------------------------------------------------------------
(* Refresh token strings of different issuances *)

\* C33: the refresh token a successful RefreshToken(r) returns differs from
\* r, and the refresh token of a newly issued pair is not the refresh token
\* stored for an earlier pair, also when the two issuances are for the same
\* user, tenant and roles and fall into the same second.
C33_RefreshTokensDistinct ==
    [][last'.op \in {"Login", "RefreshToken"} /\ last'.result.kind = "ok" =>
           /\ last'.op = "RefreshToken" => last'.result.refresh # last'.token
           /\ last'.result.refresh \notin {r.Token : r \in refresh_tokens}]_vars

----------------------------------------------------------------------------
(* Independent sessions, under SpecSessions *)

----------------------------------------------------------------------------
(* The password policy, under SpecPolicy *)

\* The password has a character of every class the configuration requires
MeetsClasses(password, config) ==
    /\ config.PasswordRequireUpper => ContainsUppercase(password)
    /\ config.PasswordRequireLower => ContainsLowercase(password)
    /\ config.PasswordRequireDigit => ContainsDigit(password)
    /\ config.PasswordRequireSpec => ContainsSpecialChar(password)

----------------------------------------------------------------------------
(* Identifiers across fields, under SpecRegisterCross *)

\* The identifier strings a user holds
IdentifiersOf(u) == {u.Email, u.Username, u.Phone, u.DocNumber} \ {""}

\* C36: in every state, also after Register calls that overlap, no string
\* is an identifier of two users, in the same field or in different fields,
\* so FindByIdentifier matches at most one user for every string.
C36_NoSharedIdentifier ==
    /\ \A a, b \in users_auth : a # b => IdentifiersOf(a) \cap IdentifiersOf(b) = {}
    /\ \A u \in users_auth : \A x \in IdentifiersOf(u) :
           Cardinality(UserRepo_FindByIdentifier(x)) <= 1

----------------------------------------------------------------------------
(* Deactivated accounts, under SpecDeactivate *)

\* C39: Login, VerifyToken and RefreshToken succeed only for a user whose
\* account is active at the time of the call; RefreshToken issues no token
\* pair for a deactivated user.
C39_RefreshNeedsActiveUser ==
    [][last'.op \in {"Login", "VerifyToken", "RefreshToken"}
           /\ last'.result.kind = "ok" =>
               /\ ActiveUser(last'.result.user)
               /\ last'.op = "RefreshToken" =>
                      \A s \in sessions' \ sessions : ActiveUser(s.UserID)]_vars

----------------------------------------------------------------------------
(* Failing internal tokens at the gateway, under SpecForward *)

\* C40: a request on the authenticated path for which the internal token
\* cannot be generated, after a hit in the gateway cache or after a
\* validation call, is answered with an error and is not forwarded; a request
\* forwarded on the authenticated path carries the internal token generated
\* from its claims and the tenant of its claims.
C40_NoForwardWithoutInternalToken ==
    [][/\ last'.op = "Gateway" =>
            \A validation \in ForwardValidations(last'.result.authHeader) :
                ( /\ GatewayRequest(last'.result.path, last'.result.authHeader,
                                    last'.tenant, validation, TRUE)
                  /\ ~Contains(last'.result.path, "/auth/login")
                  /\ ~Contains(last'.result.path, "/auth/register") ) =>
                    /\ ~last'.result.forwarded
                    /\ last'.result.status \in {401, 500}
                    /\ last'.result.authorization = <<>>
       /\ ( /\ last'.op = "Gateway" /\ last'.result.forwarded
            /\ last'.result.validated \in {"hit", "call"} ) =>
               /\ last'.result.authorization =
                      <<"Bearer", GenerateToken(last'.result.claims)>>
               /\ last'.result.tenantID = last'.result.claims.TenantID
               /\ last'.result.claims.Valid]_vars

\* A request that hit the gateway cache was answered 500 and not forwarded,
\* the internal token having failed
C40_Witness ==
    /\ last.op = "Gateway"
    /\ last.result.validated = "hit"
    /\ last.result.status = 500
    /\ ~last.result.forwarded

\* C37: a refresh token or an internal token of the gateway presented as an
\* access token is never accepted: VerifyToken and ValidateToken succeed only
\* for a string that keys a live session in the session store, so no string
\* of a logged-out pair validates
C37_OnlySessionKeysValidate ==
    ( /\ last.op \in {"VerifyToken", "ValidateToken"}
      /\ last.result.kind = "ok" ) =>
        /\ redisCache
        /\ RedisGetSession(last.token) # {}

\* The part of C37 about VerifyToken: it succeeds only for a string that keys
\* a live session
C37_VerifyTokenOnlySessionKeys ==
    (last.op = "VerifyToken" /\ last.result.kind = "ok") =>
        redisCache /\ RedisGetSession(last.token) # {}

====
